---------------------------- MODULE Spec2Model ----------------------------
(***************************************************************************)
(* Permissionless: the permission resolution core of permissionless.js.   *)
(*                                                                         *)
(* One Permissionless instance: its configuration (roles and per-user      *)
(* overrides), its three caches (resolved role permissions, decisions,     *)
(* compiled wildcard patterns) and the outcome of the most recent call.    *)
(*                                                                         *)
(* Strings that the code concatenates or matches character by character    *)
(* (user ids, permissions, contexts, patterns, cache keys) are sequences   *)
(* of one-character strings.  Role names are only compared and used as     *)
(* keys, so they are atomic strings.                                       *)
(*                                                                         *)
(* Spec is the whole API on small configurations with user overrides;      *)
(* SpecRoles is role mutation and role resolution on three-role graphs;    *)
(* both on configurations that validateConfig accepts.  SpecReplace is     *)
(* configuration replacement with accepted and rejected documents,         *)
(* SpecChecks the decision calls over lists of permissions, and SpecMatch  *)
(* the wildcard matcher on its own.                                        *)
(***************************************************************************)
EXTENDS Integers, Sequences, FiniteSets, TLC

VARIABLES
    roles,              \* this.config.roles: role name -> [permissions, inherits]
    users,              \* this.config.users: user id -> [permissions, denies]
    cache,              \* this.cache: role name -> resolved permission list
    permissionCache,    \* this.permissionCache: cache key -> boolean
    memoWildcardMatch,  \* this.memoWildcardMatch: pattern -> compiled RegExp source
    awaiting,           \* the apiUrls of loadConfigFromApi calls suspended at `await`
    emitting,           \* the addRole/removeRole call suspended in emit(), if any
    sameArray,          \* sets of roles whose `permissions` are one array object
    resolving,          \* the getRolePermissions call stack of the running call
    last                \* the most recent call: its arguments and its outcome

vars == <<roles, users, cache, permissionCache, memoWildcardMatch, awaiting, emitting,
          sameArray, resolving, last>>

-----------------------------------------------------------------------------
(* Strings *)

EmptyMap == [x \in {} |-> x]

Range(s) == {s[i] : i \in 1..Len(s)}

\* String.prototype.includes for a single character.
Includes(s, ch) == \E i \in 1..Len(s) : s[i] = ch

\* The value of an omitted `context?: string` argument.
Undefined == <<"undefined">>

\* JavaScript truthiness of an optional string: undefined and '' are falsy.
Truthy(s) == s # Undefined /\ s # <<>>

-----------------------------------------------------------------------------
(* Wildcard matcher *)

\* The pattern used as the RegExp source as it is, `*` not replaced.
ReplaceStarLeftOut(s) == s

\* permission.replace(/\*/g, '.*')
RECURSIVE ReplaceStar(_)
ReplaceStar(s) ==
    IF s = <<>> THEN <<>>
    ELSE (IF Head(s) = "*" THEN <<".", "*">> ELSE <<Head(s)>>) \o ReplaceStar(Tail(s))

\* new RegExp(`^${permission.replace(/\*/g, '.*')}$`): the source of the RegExp.
CompilePattern(permission) == <<"^">> \o ReplaceStar(permission) \o <<"$">>

\* One regular-expression atom against one character: '.' is any character,
\* every other character of the alphabet stands for itself.
AtomMatches(atom, ch) == atom = "." \/ atom = ch

\* Backtracking match of the atoms re[i..] against s[j..], to the end of s.
RECURSIVE ReMatch(_, _, _, _)
ReMatch(re, i, s, j) ==
    IF i > Len(re) THEN j > Len(s)
    ELSE IF i < Len(re) /\ re[i + 1] = "*"
         THEN \/ ReMatch(re, i + 2, s, j)
              \/ /\ j <= Len(s)
                 /\ AtomMatches(re[i], s[j])
                 /\ ReMatch(re, i, s, j + 1)
         ELSE /\ j <= Len(s)
              /\ AtomMatches(re[i], s[j])
              /\ ReMatch(re, i + 1, s, j + 1)

\* regex.test(requested) for a source "^...$": anchored at both ends.
RegexTest(regex, requested) ==
    ReMatch(SubSeq(regex, 2, Len(regex) - 1), 1, requested, 1)

\* matchesWildcard with the memo read and written under the requested string
\* in place of the pattern.
MatchesWildcardKeyedByRequested(permission, requested, memo) ==
    IF Includes(permission, "*")
    THEN LET regex == IF requested \in DOMAIN memo
                      THEN memo[requested]
                      ELSE CompilePattern(permission)
             memo2 == IF requested \in DOMAIN memo
                      THEN memo
                      ELSE memo @@ (requested :> regex)
         IN  [result |-> RegexTest(regex, requested), memo |-> memo2]
    ELSE [result |-> permission = requested, memo |-> memo]

\* matchesWildcard(permission, requested) with the memo it reads and writes:
\* [result, memo].
MatchesWildcard(permission, requested, memo) ==
    IF Includes(permission, "*")
    THEN LET regex == IF permission \in DOMAIN memo
                      THEN memo[permission]
                      ELSE CompilePattern(permission)
             memo2 == IF permission \in DOMAIN memo
                      THEN memo
                      ELSE memo @@ (permission :> regex)
         IN  [result |-> RegexTest(regex, requested), memo |-> memo2]
    ELSE [result |-> permission = requested, memo |-> memo]

\* patterns.some((p) => this.matchesWildcard(p, requested)): left to right,
\* stopping at the first match: [hit, memo].
RECURSIVE SomeMatches(_, _, _)
SomeMatches(patterns, requested, memo) ==
    IF patterns = <<>> THEN [hit |-> FALSE, memo |-> memo]
    ELSE LET m == MatchesWildcard(Head(patterns), requested, memo)
         IN  IF m.result THEN [hit |-> TRUE, memo |-> m.memo]
             ELSE SomeMatches(Tail(patterns), requested, m.memo)

-----------------------------------------------------------------------------
(* Errors and call records *)

\* PermissionlessError, told apart by its message:
\*   RoleNotFound             `Role ${role} not found`, `Role ${role} does not exist`
\*   CircularInheritance      `Circular inheritance detected in role: ${role}`
\*   RoleAlreadyExists        `Role ${role} already exists`
\*   RoleInUse                `Cannot remove role ${role} as it is inherited by
\*                             roles: ${by}`
\*   ConfigurationInvalid     `Role ${role} must have permissions array`
\*   ConfigurationUnreadable  `Configuration file not found at ...`,
\*                            `Failed to parse configuration file: ...`
\*   FetchFailed              `Failed to load configuration from ${apiUrl}`, or
\*                            the rejection of axios.get
\*   FirestoreNotInitialized  `Firestore instance is not initialized.`
\* and TypeError, raised by the runtime.
NoError == [kind |-> "none", role |-> "", by |-> {}]

Error(kind, role) == [kind |-> kind, role |-> role, by |-> {}]

-----------------------------------------------------------------------------
(* Configuration documents *)

\* A document is what JSON.parse or response.data yields: [roles, users], roles
\* a map from names to objects.  An object is a record of the members it has:
\* a role without a `permissions` member is a record without that field.  The
\* documents here always have a `roles` object, an array wherever `permissions`
\* is present, and an `inherits` array that is empty where the JSON has none.

\* A JSON value by its type, for documents of any shape: what validateConfig
\* looks at is the type of each value and whether it is truthy.  The members
\* of an object are <<key, value>> pairs in the order of the text.
JUndefined == [type |-> "undefined"]

JNull == [type |-> "null"]

JString(text) == [type |-> "string", text |-> text]

JArray(items) == [type |-> "array", items |-> items]

JObject(members) == [type |-> "object", members |-> members]

\* JavaScript truthiness: undefined, null and '' are falsy, arrays and objects
\* are truthy.
JTruthy(v) ==
    /\ v.type \notin {"undefined", "null"}
    /\ v.type = "string" => v.text # ""

\* v[key] for one of the keys `roles`, `permissions`, `inherits`, on a value
\* that is neither null nor undefined: the member of an object, undefined on a
\* string, on an array and where the object lacks the member.
JGet(v, key) ==
    IF v.type = "object" /\ \E i \in 1..Len(v.members) : v.members[i][1] = key
    THEN v.members[CHOOSE i \in 1..Len(v.members) : v.members[i][1] = key][2]
    ELSE JUndefined

\* The keys Object.entries gives the elements of an array.
ArrayIndexKey(i) == IF i = 1 THEN "0" ELSE IF i = 2 THEN "1" ELSE "2"

\* Object.entries(v) of an object or an array.
JEntries(v) ==
    IF v.type = "object" THEN v.members
    ELSE [i \in 1..Len(v.items) |-> <<ArrayIndexKey(i), v.items[i]>>]

\* The forEach of validateConfig from entry i on: it raises at the first role
\* that fails a test.  Reading role.permissions of null is a TypeError.
RECURSIVE ValidateRoles(_, _)
ValidateRoles(entries, i) ==
    IF i > Len(entries) THEN [ok |-> TRUE, err |-> NoError]
    ELSE LET roleName == entries[i][1]
             role == entries[i][2]
         IN  IF role.type \in {"undefined", "null"}
             THEN [ok |-> FALSE, err |-> Error("TypeError", roleName)]
             ELSE IF JGet(role, "permissions").type # "array"
             THEN [ok |-> FALSE, err |-> Error("ConfigurationInvalid", roleName)]
             ELSE IF /\ JTruthy(JGet(role, "inherits"))
                     /\ JGet(role, "inherits").type # "array"
             THEN [ok |-> FALSE, err |-> Error("ConfigurationInvalid", roleName)]
             ELSE ValidateRoles(entries, i + 1)

\* validateConfig(config) on a JSON value: [ok, err].  typeof is 'object' for
\* objects and for arrays (and for null, which is falsy).
ValidateJson(config) ==
    IF config.type \in {"undefined", "null"}
    THEN [ok |-> FALSE, err |-> Error("TypeError", "")]
    ELSE LET rolesValue == JGet(config, "roles")
         IN  IF ~JTruthy(rolesValue) \/ rolesValue.type \notin {"object", "array"}
             THEN [ok |-> FALSE, err |-> Error("ConfigurationInvalid", "")]
             ELSE ValidateRoles(JEntries(rolesValue), 1)

\* The texts of the documents [roles, users] write their roles, and the
\* members of each role, in this order.
KeysAsWritten ==
    <<"A", "B", "C", "D", "viewer", "editor", "permissions", "inherits">>

\* The keys S of an object of such a text, in the order of the text.
RECURSIVE OrderedAmong(_, _)
OrderedAmong(S, keys) ==
    IF keys = <<>> THEN <<>>
    ELSE (IF Head(keys) \in S THEN <<Head(keys)>> ELSE <<>>)
             \o OrderedAmong(S, Tail(keys))

Ordered(S) == OrderedAmong(S, KeysAsWritten)

\* A role of a document [roles, users] as a JSON object: the members the
\* record has.
RoleJson(role) ==
    LET keys == Ordered(DOMAIN role)
    IN  JObject([i \in 1..Len(keys) |-> <<keys[i], JArray(role[keys[i]])>>])

\* A document [roles, users] as a JSON value.
DocumentJson(config) ==
    LET names == Ordered(DOMAIN config.roles)
    IN  JObject(<< <<"roles",
                     JObject([i \in 1..Len(names) |->
                                 <<names[i], RoleJson(config.roles[names[i]])>>])>> >>)

\* validateConfig(config) on a document [roles, users]: [ok, err].  Such a
\* document has a roles object whose roles are objects, and arrays for the
\* members they have, so the one test that can fail is the one on permissions;
\* the rejected documents hold one role that fails it.
ValidateConfig(config) ==
    LET bad == {n \in DOMAIN config.roles : "permissions" \notin DOMAIN config.roles[n]}
    IN  IF bad = {} THEN [ok |-> TRUE, err |-> NoError]
        ELSE [ok |-> FALSE, err |-> Error("ConfigurationInvalid", CHOOSE n \in bad : TRUE)]

\* On documents [roles, users] the two renderings of validateConfig agree.
ValidateConfigAgrees(config) == ValidateConfig(config) = ValidateJson(DocumentJson(config))

-----------------------------------------------------------------------------
(* Role graph resolver *)

\* Property names every plain object inherits from Object.prototype: reading
\* config.roles[name] yields a function or an object for them, which is truthy.
ObjectPrototypeNames ==
    {"constructor", "toString", "toLocaleString", "valueOf", "hasOwnProperty",
     "isPrototypeOf", "propertyIsEnumerable", "__proto__",
     "__defineGetter__", "__defineSetter__", "__lookupGetter__", "__lookupSetter__"}

\* Whether `this.config.roles[roleName]` is truthy.
RoleTruthy(rolesCfg, roleName) ==
    roleName \in DOMAIN rolesCfg \/ roleName \in ObjectPrototypeNames

\* `this.config.roles[roleName]` when truthy, as getRolePermissions reads it.
\* An inherited member has neither `permissions` nor `inherits`, and a role of
\* a rejected document may lack `permissions`: new Set(undefined) is empty and
\* the loop over an absent inherits is skipped.
RoleAt(rolesCfg, roleName) ==
    IF roleName \in DOMAIN rolesCfg
    THEN [permissions |-> IF "permissions" \in DOMAIN rolesCfg[roleName]
                          THEN rolesCfg[roleName].permissions ELSE <<>>,
          inherits |-> rolesCfg[roleName].inherits]
    ELSE [permissions |-> <<>>, inherits |-> <<>>]

\* SetAddAll putting each new element in front of those already there.
RECURSIVE SetAddAllInFront(_, _)
SetAddAllInFront(acc, list) ==
    IF list = <<>> THEN acc
    ELSE SetAddAllInFront(IF Head(list) \in Range(acc) THEN acc ELSE <<Head(list)>> \o acc,
                          Tail(list))

\* Set.prototype.add for each element of list, on a Set kept in insertion order.
RECURSIVE SetAddAll(_, _)
SetAddAll(acc, list) ==
    IF list = <<>> THEN acc
    ELSE SetAddAll(IF Head(list) \in Range(acc) THEN acc ELSE Append(acc, Head(list)),
                   Tail(list))

\* getRolePermissions(roleName, visited) on role cache c:
\* [ok, err, value, cache, visited].  ResolveInherits is its loop over
\* role.inherits, accumulating into the Set `permissions`.
RECURSIVE GetRolePermissions(_, _, _, _)
RECURSIVE ResolveInherits(_, _, _, _, _)

\* ResolveInherits with the inherited permissions resolved but not added to the
\* Set (the forEach over inheritedPermissions left out).
RECURSIVE ResolveInheritsNoMerge(_, _, _, _, _)
ResolveInheritsNoMerge(rolesCfg, inherits, permissions, c, visited) ==
    IF inherits = <<>>
    THEN [ok |-> TRUE, err |-> NoError, value |-> permissions,
          cache |-> c, visited |-> visited]
    ELSE LET r == GetRolePermissions(rolesCfg, c, Head(inherits), visited)
         IN  IF ~r.ok THEN r
             ELSE ResolveInheritsNoMerge(rolesCfg, Tail(inherits),
                                         permissions, r.cache, r.visited)

\* ResolveInherits without keeping what the resolution of each inherited role
\* stored in this.cache.
RECURSIVE ResolveInheritsForgetful(_, _, _, _, _)
ResolveInheritsForgetful(rolesCfg, inherits, permissions, c, visited) ==
    IF inherits = <<>>
    THEN [ok |-> TRUE, err |-> NoError, value |-> permissions,
          cache |-> c, visited |-> visited]
    ELSE LET r == GetRolePermissions(rolesCfg, c, Head(inherits), visited)
         IN  IF ~r.ok THEN r
             ELSE ResolveInheritsForgetful(rolesCfg, Tail(inherits),
                                           SetAddAll(permissions, r.value), c, r.visited)

\* getRolePermissions testing `visited` before it looks into this.cache.
GetRolePermissionsVisitedFirst(rolesCfg, c, roleName, visited) ==
    IF roleName \in visited
    THEN [ok |-> FALSE, err |-> Error("CircularInheritance", roleName), value |-> <<>>,
          cache |-> c, visited |-> visited]
    ELSE IF roleName \in DOMAIN c
    THEN [ok |-> TRUE, err |-> NoError, value |-> c[roleName],
          cache |-> c, visited |-> visited]
    ELSE IF ~RoleTruthy(rolesCfg, roleName)
    THEN [ok |-> FALSE, err |-> Error("RoleNotFound", roleName), value |-> <<>>,
          cache |-> c, visited |-> visited]
    ELSE LET role == RoleAt(rolesCfg, roleName)
             r == ResolveInherits(rolesCfg, role.inherits,
                                  SetAddAll(<<>>, role.permissions), c,
                                  visited \cup {roleName})
         IN  IF ~r.ok THEN r
             ELSE [ok |-> TRUE, err |-> NoError, value |-> r.value,
                   cache |-> r.cache @@ (roleName :> r.value), visited |-> r.visited]

\* getRolePermissions with the role's own permissions cached before its
\* inherits are resolved (this.cache.set moved above the loop).
GetRolePermissionsCachedEarly(rolesCfg, c, roleName, visited) ==
    IF roleName \in DOMAIN c
    THEN [ok |-> TRUE, err |-> NoError, value |-> c[roleName],
          cache |-> c, visited |-> visited]
    ELSE IF ~RoleTruthy(rolesCfg, roleName)
    THEN [ok |-> FALSE, err |-> Error("RoleNotFound", roleName), value |-> <<>>,
          cache |-> c, visited |-> visited]
    ELSE IF roleName \in visited
    THEN [ok |-> FALSE, err |-> Error("CircularInheritance", roleName), value |-> <<>>,
          cache |-> c, visited |-> visited]
    ELSE LET role == RoleAt(rolesCfg, roleName)
             own == SetAddAll(<<>>, role.permissions)
             r == ResolveInherits(rolesCfg, role.inherits, own,
                                  c @@ (roleName :> own), visited \cup {roleName})
         IN  IF ~r.ok THEN r
             ELSE [ok |-> TRUE, err |-> NoError, value |-> r.value,
                   cache |-> (roleName :> r.value) @@ r.cache, visited |-> r.visited]

ResolveInherits(rolesCfg, inherits, permissions, c, visited) ==
    IF inherits = <<>>
    THEN [ok |-> TRUE, err |-> NoError, value |-> permissions,
          cache |-> c, visited |-> visited]
    ELSE LET r == GetRolePermissions(rolesCfg, c, Head(inherits), visited)
         IN  IF ~r.ok THEN r
             ELSE ResolveInherits(rolesCfg, Tail(inherits),
                                  SetAddAll(permissions, r.value), r.cache, r.visited)

GetRolePermissions(rolesCfg, c, roleName, visited) ==
    IF roleName \in DOMAIN c
    THEN [ok |-> TRUE, err |-> NoError, value |-> c[roleName],
          cache |-> c, visited |-> visited]
    ELSE IF ~RoleTruthy(rolesCfg, roleName)
    THEN [ok |-> FALSE, err |-> Error("RoleNotFound", roleName), value |-> <<>>,
          cache |-> c, visited |-> visited]
    ELSE IF roleName \in visited
    THEN [ok |-> FALSE, err |-> Error("CircularInheritance", roleName), value |-> <<>>,
          cache |-> c, visited |-> visited]
    ELSE LET role == RoleAt(rolesCfg, roleName)
             r == ResolveInherits(rolesCfg, role.inherits,
                                  SetAddAll(<<>>, role.permissions), c,
                                  visited \cup {roleName})
         IN  IF ~r.ok THEN r
             ELSE [ok |-> TRUE, err |-> NoError, value |-> r.value,
                   cache |-> r.cache @@ (roleName :> r.value), visited |-> r.visited]

-----------------------------------------------------------------------------
(* getRolePermissions, one call and one loop turn at a time *)

\* A running getPermissionsForRole or hasPermission call, as far as its
\* getRolePermissions calls go:
\*   call      the public call and its arguments
\*   calling   <<roleName>> when getRolePermissions(roleName, visited) has been
\*             called and has not yet run, <<>> otherwise
\*   visited   the Set shared by the calls
\*   stack     the calls that are in their loop, outermost first: the role,
\*             the `permissions` Set so far, the inherits still to visit
\*   returned  <<[ok, err, value]>> once the outermost call returned or threw
\*   cacheAtCall  this.cache when the public call began
Running(call, roleName, c) ==
    [call |-> call, calling |-> <<roleName>>, visited |-> {}, stack |-> <<>>,
     returned |-> <<>>, cacheAtCall |-> c]

\* `return` of a getRolePermissions call: into the caller's
\* forEach((perm) => permissions.add(perm)), or out of the outermost call.
Landed(run, value) ==
    IF run.stack = <<>>
    THEN [run EXCEPT !.calling = <<>>,
                     !.returned = <<[ok |-> TRUE, err |-> NoError, value |-> value]>>]
    ELSE [run EXCEPT !.calling = <<>>,
                     !.stack[Len(run.stack)].permissions = SetAddAll(@, value)]

\* `throw`: no call on the stack catches, so every one of them is left.
Thrown(run, err) ==
    [run EXCEPT !.calling = <<>>, !.stack = <<>>,
                !.returned = <<[ok |-> FALSE, err |-> err, value |-> <<>>]>>]

\* getRolePermissions entered without the test of visited.
GetRolePermissionsEnteredUnvisited(rolesCfg, c, run) ==
    LET roleName == run.calling[1]
        role == RoleAt(rolesCfg, roleName)
    IN  IF roleName \in DOMAIN c THEN Landed(run, c[roleName])
        ELSE IF ~RoleTruthy(rolesCfg, roleName)
        THEN Thrown(run, Error("RoleNotFound", roleName))
        ELSE [run EXCEPT !.calling = <<>>,
                         !.visited = @ \cup {roleName},
                         !.stack = Append(@, [roleName |-> roleName,
                                              permissions |-> SetAddAll(<<>>, role.permissions),
                                              inherits |-> role.inherits])]

\* getRolePermissions(roleName, visited) from its first statement to the head
\* of its loop: the cache, the role, visited, visited.add, new Set.
GetRolePermissionsEntered(rolesCfg, c, run) ==
    LET roleName == run.calling[1]
        role == RoleAt(rolesCfg, roleName)
    IN  IF roleName \in DOMAIN c THEN Landed(run, c[roleName])
        ELSE IF ~RoleTruthy(rolesCfg, roleName)
        THEN Thrown(run, Error("RoleNotFound", roleName))
        ELSE IF roleName \in run.visited
        THEN Thrown(run, Error("CircularInheritance", roleName))
        ELSE [run EXCEPT !.calling = <<>>,
                         !.visited = @ \cup {roleName},
                         !.stack = Append(@, [roleName |-> roleName,
                                              permissions |-> SetAddAll(<<>>, role.permissions),
                                              inherits |-> role.inherits])]

\* One turn of `for (const inheritedRole of role.inherits)` in the innermost
\* call: the call of the next inherited role, or, the list done,
\* Array.from, cache.set and return: [run, cache].
GetRolePermissionsLooped(c, run) ==
    LET depth == Len(run.stack)
        top == run.stack[depth]
    IN  IF top.inherits # <<>>
        THEN [run |-> [run EXCEPT !.calling = <<Head(top.inherits)>>,
                                  !.stack[depth].inherits = Tail(@)],
              cache |-> c]
        ELSE [run |-> Landed([run EXCEPT !.stack = SubSeq(@, 1, depth - 1)],
                             top.permissions),
              cache |-> (top.roleName :> top.permissions) @@ c]

-----------------------------------------------------------------------------
(* Decision engine *)

\* `${user.id}:${permission}:${context || ''}`
CacheKey(id, permission, context) ==
    id \o <<":">> \o permission \o <<":">> \o (IF Truthy(context) THEN context ELSE <<>>)

\* context ? `${permission}:${context}` : permission
FullPermission(permission, context) ==
    IF Truthy(context) THEN permission \o <<":">> \o context ELSE permission

\* this.config.users?.[user.id] || {}; an absent denies or permissions list
\* makes `?.some(...)` undefined, as an empty list makes it false.  (An id that
\* names a member of Object.prototype yields that member, which has neither
\* list; UserIds holds no such id.)
UserOverrides(usersCfg, id) ==
    IF id \in DOMAIN usersCfg THEN usersCfg[id]
    ELSE [permissions |-> <<>>, denies |-> <<>>]

\* hasPermission(user, permission, context) on the given configuration and
\* caches: [ok, err, result, cache, permissionCache, memo].
HasPermission(rolesCfg, usersCfg, c, pc, memo, user, permission, context) ==
    LET cacheKey == CacheKey(user.id, permission, context)
        userOverrides == UserOverrides(usersCfg, user.id)
        fullPermission == FullPermission(permission, context)
        denied == SomeMatches(userOverrides.denies, fullPermission, memo)
        granted == SomeMatches(userOverrides.permissions, fullPermission, denied.memo)
        resolved == GetRolePermissions(rolesCfg, c, user.role, {})
        byRole == SomeMatches(resolved.value, fullPermission, granted.memo)
    IN  IF cacheKey \in DOMAIN pc
        THEN [ok |-> TRUE, err |-> NoError, result |-> pc[cacheKey],
              cache |-> c, permissionCache |-> pc, memo |-> memo]
        ELSE IF denied.hit
        THEN [ok |-> TRUE, err |-> NoError, result |-> FALSE, cache |-> c,
              permissionCache |-> pc @@ (cacheKey :> FALSE), memo |-> denied.memo]
        ELSE IF granted.hit
        THEN [ok |-> TRUE, err |-> NoError, result |-> TRUE, cache |-> c,
              permissionCache |-> pc @@ (cacheKey :> TRUE), memo |-> granted.memo]
        ELSE IF ~resolved.ok
        THEN [ok |-> FALSE, err |-> resolved.err, result |-> FALSE,
              cache |-> resolved.cache, permissionCache |-> pc, memo |-> granted.memo]
        ELSE [ok |-> TRUE, err |-> NoError, result |-> byRole.hit,
              cache |-> resolved.cache,
              permissionCache |-> pc @@ (cacheKey :> byRole.hit), memo |-> byRole.memo]

\* hasPermission up to its call of getRolePermissions: whether it gets there
\* (no cached decision, no denies and no grant of the user matches), and the
\* memo after the matching: [resolves, memo].
HasPermissionResolves(usersCfg, pc, memo, user, permission, context) ==
    LET userOverrides == UserOverrides(usersCfg, user.id)
        fullPermission == FullPermission(permission, context)
        denied == SomeMatches(userOverrides.denies, fullPermission, memo)
        granted == SomeMatches(userOverrides.permissions, fullPermission, denied.memo)
    IN  [resolves |-> /\ CacheKey(user.id, permission, context) \notin DOMAIN pc
                      /\ ~denied.hit
                      /\ ~granted.hit,
         memo |-> granted.memo]

\* checkMultiplePermissions with an error of a check counted as a negative
\* result.
RECURSIVE CheckMultiplePermissionsMasking(_, _, _, _, _, _, _, _)
CheckMultiplePermissionsMasking(rolesCfg, usersCfg, c, pc, memo, user, permissions, context) ==
    IF permissions = <<>>
    THEN [ok |-> TRUE, err |-> NoError, result |-> TRUE,
          cache |-> c, permissionCache |-> pc, memo |-> memo]
    ELSE LET h == HasPermission(rolesCfg, usersCfg, c, pc, memo,
                                user, Head(permissions), context)
         IN  IF ~h.ok \/ ~h.result
             THEN [h EXCEPT !.ok = TRUE, !.err = NoError, !.result = FALSE]
             ELSE CheckMultiplePermissionsMasking(rolesCfg, usersCfg, h.cache,
                      h.permissionCache, h.memo, user, Tail(permissions), context)

\* checkMultiplePermissions(user, permissions, context):
\* permissions.every((permission) => this.hasPermission(user, permission, context)),
\* each check on the caches the one before left:
\* [ok, err, result, cache, permissionCache, memo].
RECURSIVE CheckMultiplePermissions(_, _, _, _, _, _, _, _)
CheckMultiplePermissions(rolesCfg, usersCfg, c, pc, memo, user, permissions, context) ==
    IF permissions = <<>>
    THEN [ok |-> TRUE, err |-> NoError, result |-> TRUE,
          cache |-> c, permissionCache |-> pc, memo |-> memo]
    ELSE LET h == HasPermission(rolesCfg, usersCfg, c, pc, memo,
                                user, Head(permissions), context)
         IN  IF ~h.ok \/ ~h.result THEN h
             ELSE CheckMultiplePermissions(rolesCfg, usersCfg, h.cache,
                      h.permissionCache, h.memo, user, Tail(permissions), context)

\* checkAnyPermission(user, permissions, context):
\* permissions.some((permission) => this.hasPermission(user, permission, context)).
RECURSIVE CheckAnyPermission(_, _, _, _, _, _, _, _)
CheckAnyPermission(rolesCfg, usersCfg, c, pc, memo, user, permissions, context) ==
    IF permissions = <<>>
    THEN [ok |-> TRUE, err |-> NoError, result |-> FALSE,
          cache |-> c, permissionCache |-> pc, memo |-> memo]
    ELSE LET h == HasPermission(rolesCfg, usersCfg, c, pc, memo,
                                user, Head(permissions), context)
         IN  IF ~h.ok \/ h.result THEN h
             ELSE CheckAnyPermission(rolesCfg, usersCfg, h.cache,
                      h.permissionCache, h.memo, user, Tail(permissions), context)

-----------------------------------------------------------------------------
(* Cache layer *)

\* clearCache(): the role cache and the decision cache; the compiled-pattern
\* memo is kept.
ClearCache(c, pc, memo) ==
    [cache |-> EmptyMap, permissionCache |-> EmptyMap, memo |-> memo]

\* clearInternalCache() with the role cache left as it is.
ClearInternalCacheKeepsRoles(c, pc, memo) ==
    [cache |-> c, permissionCache |-> EmptyMap, memo |-> EmptyMap]

\* clearInternalCache(): all three tiers.
ClearInternalCache(c, pc, memo) ==
    [cache |-> EmptyMap, permissionCache |-> EmptyMap, memo |-> EmptyMap]

-----------------------------------------------------------------------------
(* Role mutation operations, as functions of config.roles: [ok, err, roles] *)

AddRole(rolesCfg, roleName, permissions, inherits) ==
    IF RoleTruthy(rolesCfg, roleName)
    THEN [ok |-> FALSE, err |-> Error("RoleAlreadyExists", roleName), roles |-> rolesCfg]
    ELSE [ok |-> TRUE, err |-> NoError,
          roles |-> rolesCfg @@
                    (roleName :> [permissions |-> permissions, inherits |-> inherits])]

\* Object.entries(roles).filter(([_, role]) => role.inherits?.includes(roleName))
InheritingRoles(rolesCfg, roleName) ==
    {n \in DOMAIN rolesCfg : roleName \in Range(rolesCfg[n].inherits)}

\* removeRole without the check for inheriting roles.
RemoveRoleUnchecked(rolesCfg, roleName) ==
    IF ~RoleTruthy(rolesCfg, roleName)
    THEN [ok |-> FALSE, err |-> Error("RoleNotFound", roleName), roles |-> rolesCfg]
    ELSE [ok |-> TRUE, err |-> NoError,
          roles |-> [n \in DOMAIN rolesCfg \ {roleName} |-> rolesCfg[n]]]

\* `delete this.config.roles[roleName]` removes an own property only.
RemoveRole(rolesCfg, roleName) ==
    IF ~RoleTruthy(rolesCfg, roleName)
    THEN [ok |-> FALSE, err |-> Error("RoleNotFound", roleName), roles |-> rolesCfg]
    ELSE IF InheritingRoles(rolesCfg, roleName) # {}
    THEN [ok |-> FALSE,
          err |-> [kind |-> "RoleInUse", role |-> roleName,
                   by |-> InheritingRoles(rolesCfg, roleName)],
          roles |-> rolesCfg]
    ELSE [ok |-> TRUE, err |-> NoError,
          roles |-> [n \in DOMAIN rolesCfg \ {roleName} |-> rolesCfg[n]]]

\* role.permissions.push(permission); an inherited member of Object.prototype
\* has no permissions array, nor has a role that a rejected document left
\* without one, and the push raises a TypeError.
AddPermissionToRole(rolesCfg, roleName, permission) ==
    IF ~RoleTruthy(rolesCfg, roleName)
    THEN [ok |-> FALSE, err |-> Error("RoleNotFound", roleName), roles |-> rolesCfg]
    ELSE IF roleName \notin DOMAIN rolesCfg
            \/ "permissions" \notin DOMAIN rolesCfg[roleName]
    THEN [ok |-> FALSE, err |-> Error("TypeError", roleName), roles |-> rolesCfg]
    ELSE [ok |-> TRUE, err |-> NoError,
          roles |-> [rolesCfg EXCEPT ![roleName].permissions = Append(@, permission)]]

\* Arrays are objects, and addRole keeps the very array it is given
\* (`{ permissions, inherits }`): roles that were given one array have one
\* `permissions`.  same is the set of the sets of such roles; the roles that
\* hold the permissions array of roleName:
SameArrayAs(same, roleName) ==
    UNION {b \in same : roleName \in b} \cup {roleName}

\* A push onto the permissions array of roleName shows in every role that
\* holds that array.
PushedThrough(rolesCfg, same, roleName) ==
    [n \in DOMAIN rolesCfg |->
        IF n # roleName /\ n \in SameArrayAs(same, roleName)
        THEN [rolesCfg[n] EXCEPT !.permissions = rolesCfg[roleName].permissions]
        ELSE rolesCfg[n]]

\* The sets of roles that still hold one array once only rolesCfg is left.
SameArrayLeft(same, rolesCfg) ==
    {left \in {b \cap DOMAIN rolesCfg : b \in same} : Cardinality(left) >= 2}

\* roleName was added with the permissions array that the role held holds.
SameArrayJoined(same, held, roleName) ==
    {b \in same : held \notin b} \cup {SameArrayAs(same, held) \cup {roleName}}

-----------------------------------------------------------------------------
(* Queries *)

\* hasRole(roleName): !!this.config.roles[roleName]
HasRole(rolesCfg, roleName) == RoleTruthy(rolesCfg, roleName)

\* listRoles(): Object.keys(this.config.roles), the own keys.  Object.keys
\* gives them in the order of insertion; config.roles is a function of the
\* names here, which keeps no order, and so the result is the set of the names.
ListRoles(rolesCfg) == DOMAIN rolesCfg

\* listUsers(): Object.keys(this.config.users || {}), as the set of the ids.
ListUsers(usersCfg) == DOMAIN usersCfg

-----------------------------------------------------------------------------
(* Inputs *)

\* Role names used in configurations and in calls.  "constructor" is never an
\* own key of config.roles here; it stands for the names of ObjectPrototypeNames.
\* A name of RoleNames that the configuration lacks is an absent role.
RoleNames == {"A", "B", "C"}
DecisionRoleNames == {"A", "B"}

UserIds == {<<"u">>}

\* (permission, context) pairs of hasPermission calls:
\*   "r:a"        key "u:r:a:"  full permission "r:a"
\*   "r", "a:"    key "u:r:a:"  full permission "r:a:"
\*   "r", ""      key "u:r:"    full permission "r"
Requests ==
    { <<<<"r", ":", "a">>, Undefined>>,
      <<<<"r">>, <<"a", ":">>>>,
      <<<<"r">>, <<>>>> }

\* Arguments of addRole and addPermissionToRole.
NewRolePermissions == { <<<<"r", ":", "a">>>> }
NewPermissions == { <<"r", ":", "a">> }

\* Longest permission list addPermissionToRole is let to build.
MaxPerms == 2

\* Valid configuration documents: the file read by the constructor and by the
\* fs.watch reload, and the body of a loadConfigFromApi response.  Documents
\* that validateConfig rejects are not among them.
ConfigOverrides ==
    [roles |-> ("A" :> [permissions |-> << <<"r">> >>, inherits |-> <<"B">>]) @@
               ("B" :> [permissions |-> << <<"r", ":", "*">> >>, inherits |-> <<>>]),
     users |-> (<<"u">> :> [permissions |-> << <<"r", ":", "a">> >>,
                            denies |-> << <<"r", ":", "a", ":">> >>])]

ConfigPlain ==
    [roles |-> ("A" :> [permissions |-> << <<"r", ":", "a">> >>, inherits |-> <<>>]),
     users |-> EmptyMap]

ConfigDocuments == {ConfigOverrides, ConfigPlain}

\* A document that validateConfig rejects: role B has no permissions array.
\*   {"roles": {"A": {"permissions": ["r:a"]}, "B": {}}}
ConfigRejected ==
    [roles |-> ("A" :> [permissions |-> << <<"r", ":", "a">> >>, inherits |-> <<>>]) @@
               ("B" :> [inherits |-> <<>>]),
     users |-> EmptyMap]

\* Arguments of checkMultiplePermissions and checkAnyPermission: lists of up
\* to MaxChecks permissions, and the context they share.
MaxChecks == 2
CheckPermissions == { <<"r", ":", "a">>, <<"r">> }
CheckContexts == { Undefined, <<"a", ":">> }

RECURSIVE Lists(_, _)
Lists(elements, n) ==
    IF n = 0 THEN {<<>>}
    ELSE LET shorter == Lists(elements, n - 1)
         IN  shorter \cup {Append(list, e) : list \in shorter, e \in elements}

\* All strings over an alphabet up to a length.
RECURSIVE Strings(_, _)
Strings(alphabet, n) ==
    IF n = 0 THEN {<<>>}
    ELSE LET shorter == Strings(alphabet, n - 1)
         IN  shorter \cup {Append(str, ch) : str \in shorter, ch \in alphabet}

\* Arguments of matchesWildcard: every short pattern and requested string over
\* alphabets with the wildcard, the dot and a letter in both cases, and the
\* pattern and the requested strings of the readme's example.
MaxPatternLen == 2
MaxRequestedLen == 3
PatternAlphabet == {"a", "A", ".", "*"}
RequestedAlphabet == {"a", "A", "."}

WriteArticles == <<"w", "r", "i", "t", "e", ":", "a", "r", "t", "i", "c", "l", "e", "s">>
WriteArticlesPattern == WriteArticles \o <<".", "*">>
WriteArticlesDot == WriteArticles \o <<".">>
WriteArticlesSection1 ==
    WriteArticles \o <<".", "s", "e", "c", "t", "i", "o", "n", "1">>

Patterns == Strings(PatternAlphabet, MaxPatternLen) \cup {WriteArticlesPattern}
RequestedStrings ==
    Strings(RequestedAlphabet, MaxRequestedLen)
        \cup {WriteArticles, WriteArticlesDot, WriteArticlesSection1}

\* Arguments of loadConfigFromApi; one call per apiUrl awaits at a time.
ApiUrls == {"https://example.com/permissions.json"}

\* A role graph with a chain A -> B -> C and a second path A -> C.
ConfigGraph ==
    [roles |-> ("A" :> [permissions |-> << <<"w">> >>, inherits |-> <<"B", "C">>]) @@
               ("B" :> [permissions |-> << <<"r", ":", "a">> >>, inherits |-> <<"C">>]) @@
               ("C" :> [permissions |-> << <<"r", ":", "*">> >>, inherits |-> <<>>]),
     users |-> EmptyMap]

\* Configurations validateConfig accepts in which resolving A fails after B
\* was resolved: A lists an absent role, or a role that inherits A.
\*   {"roles": {"A": {"permissions": ["w"], "inherits": ["B", "C"]},
\*              "B": {"permissions": ["r:a"]}}}
ConfigDangling ==
    [roles |-> ("A" :> [permissions |-> << <<"w">> >>, inherits |-> <<"B", "C">>]) @@
               ("B" :> [permissions |-> << <<"r", ":", "a">> >>, inherits |-> <<>>]),
     users |-> EmptyMap]

ConfigCyclic ==
    [roles |-> ("A" :> [permissions |-> << <<"w">> >>, inherits |-> <<"B", "C">>]) @@
               ("B" :> [permissions |-> << <<"r", ":", "a">> >>, inherits |-> <<>>]) @@
               ("C" :> [permissions |-> << <<"r", ":", "*">> >>, inherits |-> <<"A">>]),
     users |-> EmptyMap]

\* A chain in which no role grants "r:a": A inherits B, B inherits C.
ConfigChain ==
    [roles |-> ("A" :> [permissions |-> << <<"w">> >>, inherits |-> <<"B">>]) @@
               ("B" :> [permissions |-> << <<"w">> >>, inherits |-> <<"C">>]) @@
               ("C" :> [permissions |-> << <<"r">> >>, inherits |-> <<>>]),
     users |-> EmptyMap]

\* The roles of the example configuration: editor inherits viewer.
ReadArticles == <<"r", "e", "a", "d", ":", "a", "r", "t", "i", "c", "l", "e", "s">>

ConfigEditorViewer ==
    [roles |-> ("viewer" :> [permissions |-> <<ReadArticles>>, inherits |-> <<>>]) @@
               ("editor" :> [permissions |-> <<WriteArticles>>, inherits |-> <<"viewer">>]),
     users |-> EmptyMap]

\* An acyclic graph with a shared ancestor: A inherits B and C, and B and C
\* both inherit D.
DiamondNames == {"A", "B", "C", "D"}

ConfigDiamond ==
    [roles |-> ("A" :> [permissions |-> << <<"w">> >>, inherits |-> <<"B", "C">>]) @@
               ("B" :> [permissions |-> << <<"r", ":", "a">> >>, inherits |-> <<"D">>]) @@
               ("C" :> [permissions |-> << <<"r", ":", "*">> >>, inherits |-> <<"D">>]) @@
               ("D" :> [permissions |-> << <<"d">> >>, inherits |-> <<>>]),
     users |-> EmptyMap]

\* A configuration whose wildcard patterns are not those of ConfigOverrides.
\*   {"roles": {"A": {"permissions": ["r:a:*"]}, "B": {"permissions": ["*"]}}}
ConfigStars ==
    [roles |-> ("A" :> [permissions |-> << <<"r", ":", "a", ":", "*">> >>, inherits |-> <<>>]) @@
               ("B" :> [permissions |-> << <<"*">> >>, inherits |-> <<>>]),
     users |-> EmptyMap]

-----------------------------------------------------------------------------
(* State machine *)

Call(op) ==
    [op |-> op, id |-> <<>>, role |-> "", permission |-> <<>>, context |-> <<>>,
     permissions |-> <<>>, inherits |-> <<>>, requested |-> <<>>,
     document |-> JUndefined, names |-> {},
     ok |-> TRUE, err |-> NoError, result |-> FALSE, value |-> <<>>]

\* The constructor: loadConfig() of a valid configuration file, empty caches.
Constructed(doc) ==
    /\ roles = doc.roles
    /\ users = doc.users
    /\ cache = EmptyMap
    /\ permissionCache = EmptyMap
    /\ memoWildcardMatch = EmptyMap
    /\ awaiting = {}
    /\ emitting = <<>>
    /\ sameArray = {}
    /\ resolving = <<>>
    /\ last = Call("constructor")

Init == \E doc \in ConfigDocuments : Constructed(doc)

CallHasPermission(id, role, permission, context) ==
    LET r == HasPermission(roles, users, cache, permissionCache, memoWildcardMatch,
                           [id |-> id, role |-> role], permission, context)
    IN  /\ cache' = r.cache
        /\ permissionCache' = r.permissionCache
        /\ memoWildcardMatch' = r.memo
        /\ last' = [Call("hasPermission") EXCEPT
                        !.id = id, !.role = role, !.permission = permission,
                        !.context = context, !.ok = r.ok, !.err = r.err,
                        !.result = r.result]
        /\ UNCHANGED <<roles, users, awaiting, emitting, sameArray, resolving>>

CallChecked(call, r) ==
    /\ cache' = r.cache
    /\ permissionCache' = r.permissionCache
    /\ memoWildcardMatch' = r.memo
    /\ last' = [call EXCEPT !.ok = r.ok, !.err = r.err, !.result = r.result]
    /\ UNCHANGED <<roles, users, awaiting, emitting, sameArray, resolving>>

CallCheckMultiplePermissions(id, role, permissions, context) ==
    CallChecked([Call("checkMultiplePermissions") EXCEPT
                     !.id = id, !.role = role, !.permissions = permissions,
                     !.context = context],
                CheckMultiplePermissions(roles, users, cache, permissionCache,
                    memoWildcardMatch, [id |-> id, role |-> role],
                    permissions, context))

CallCheckAnyPermission(id, role, permissions, context) ==
    CallChecked([Call("checkAnyPermission") EXCEPT
                     !.id = id, !.role = role, !.permissions = permissions,
                     !.context = context],
                CheckAnyPermission(roles, users, cache, permissionCache,
                    memoWildcardMatch, [id |-> id, role |-> role],
                    permissions, context))

\* getPermissionsForRole collecting into the role's own permissions array in
\* place of a new Set: what it resolves is written into the role.
CallGetPermissionsForRoleInPlace(role) ==
    LET r == GetRolePermissions(roles, cache, role, {})
    IN  /\ cache' = r.cache
        /\ roles' = IF r.ok /\ role \in DOMAIN roles
                    THEN [roles EXCEPT ![role].permissions = r.value]
                    ELSE roles
        /\ last' = [Call("getPermissionsForRole") EXCEPT
                        !.role = role, !.ok = r.ok, !.err = r.err, !.value = r.value]
        /\ UNCHANGED <<users, permissionCache, memoWildcardMatch, awaiting, emitting,
                 sameArray, resolving>>

\* getPermissionsForRole(role) is getRolePermissions(role) with a new visited set.
CallGetPermissionsForRole(role) ==
    LET r == GetRolePermissions(roles, cache, role, {})
    IN  /\ cache' = r.cache
        /\ last' = [Call("getPermissionsForRole") EXCEPT
                        !.role = role, !.ok = r.ok, !.err = r.err, !.value = r.value]
        /\ UNCHANGED <<roles, users, permissionCache, memoWildcardMatch, awaiting, emitting,
                 sameArray, resolving>>

\* A mutation that succeeded clears all three tiers; one that raised returned
\* before touching anything.
MutatedSharing(call, m, same) ==
    LET cleared == ClearInternalCache(cache, permissionCache, memoWildcardMatch)
    IN  /\ roles' = m.roles
        /\ sameArray' = same
        /\ cache' = IF m.ok THEN cleared.cache ELSE cache
        /\ permissionCache' = IF m.ok THEN cleared.permissionCache ELSE permissionCache
        /\ memoWildcardMatch' = IF m.ok THEN cleared.memo ELSE memoWildcardMatch
        /\ last' = [call EXCEPT !.ok = m.ok, !.err = m.err]
        /\ UNCHANGED <<users, awaiting, emitting, resolving>>

\* The arrays of a role that is deleted are no longer held through it.
Mutated(call, m) ==
    MutatedSharing(call, m, SameArrayLeft(sameArray, m.roles))

\* addRole with array literals as arguments: arrays that nothing else holds.
CallAddRole(roleName, permissions, inherits) ==
    Mutated([Call("addRole") EXCEPT !.role = roleName, !.permissions = permissions,
                                    !.inherits = inherits],
            AddRole(roles, roleName, permissions, inherits))

\* addRole given, as permissions, the array the caller gave to its last call,
\* a successful addRole: `const ps = [...]; addRole(x, ps); addRole(y, ps)`.
CallAddRoleSameArray(roleName) ==
    /\ last.op = "addRole" /\ last.ok
    /\ LET held == last.role
           m == AddRole(roles, roleName, roles[held].permissions, <<>>)
       IN  MutatedSharing([Call("addRole") EXCEPT !.role = roleName,
                                                  !.permissions = roles[held].permissions,
                                                  !.inherits = <<>>],
                          m,
                          IF m.ok THEN SameArrayJoined(sameArray, held, roleName)
                                  ELSE sameArray)

CallRemoveRole(roleName) ==
    Mutated([Call("removeRole") EXCEPT !.role = roleName],
            RemoveRole(roles, roleName))

CallAddPermissionToRole(roleName, permission) ==
    /\ roleName \in DOMAIN roles => Len(RoleAt(roles, roleName).permissions) < MaxPerms
    /\ LET m == AddPermissionToRole(roles, roleName, permission)
       IN  Mutated([Call("addPermissionToRole") EXCEPT !.role = roleName,
                                                       !.permission = permission],
                   [m EXCEPT !.roles = PushedThrough(@, sameArray, roleName)])

CallClearCache ==
    LET cleared == ClearCache(cache, permissionCache, memoWildcardMatch)
    IN  /\ cache' = cleared.cache
        /\ permissionCache' = cleared.permissionCache
        /\ memoWildcardMatch' = cleared.memo
        /\ last' = Call("clearCache")
        /\ UNCHANGED <<roles, users, awaiting, emitting, sameArray, resolving>>

\* The fs.watch callback for a 'change' event whose file parses to doc:
\* loadConfig(), clearCache(), emit('configReloaded').  loadConfig() assigns
\* this.config and then validates it; when validateConfig raises, the callback
\* ends there, clearCache() not reached.  (The error leaves the callback as an
\* uncaught exception; the instance lives on where the host handles those.)
FileChanged(doc) ==
    LET v == ValidateConfig(doc)
        cleared == ClearCache(cache, permissionCache, memoWildcardMatch)
    IN  /\ roles' = doc.roles
        /\ users' = doc.users
        /\ cache' = IF v.ok THEN cleared.cache ELSE cache
        /\ permissionCache' = IF v.ok THEN cleared.permissionCache ELSE permissionCache
        /\ memoWildcardMatch' = IF v.ok THEN cleared.memo ELSE memoWildcardMatch
        /\ sameArray' = {}
        /\ last' = [Call("fileReload") EXCEPT !.ok = v.ok, !.err = v.err]
        /\ UNCHANGED <<awaiting, emitting, resolving>>

\* The same callback when loadConfig() finds no file, or a file that JSON.parse
\* rejects: it raises before assigning this.config, and clearCache() is not
\* reached.
FileChangedUnreadable ==
    /\ last' = [Call("fileReload") EXCEPT
                    !.ok = FALSE, !.err = Error("ConfigurationUnreadable", "")]
    /\ UNCHANGED <<roles, users, cache, permissionCache, memoWildcardMatch, awaiting, emitting,
                 sameArray, resolving>>

\* loadConfigFromApi up to its `await axios.get(apiUrl)`: the call is suspended
\* and has touched nothing; other calls run until the response arrives.
LoadConfigFromApiAwait(apiUrl) ==
    /\ apiUrl \notin awaiting
    /\ awaiting' = awaiting \cup {apiUrl}
    /\ UNCHANGED <<roles, users, cache, permissionCache, memoWildcardMatch, emitting, last,
                 sameArray, resolving>>

\* loadConfigFromApi resumed with a response of status 200 and body doc: the
\* assignment, clearInternalCache(), validateConfig(), run to the end without
\* another call in between.
LoadConfigFromApi(apiUrl, doc) ==
    LET v == ValidateConfig(doc)
        cleared == ClearInternalCache(cache, permissionCache, memoWildcardMatch)
    IN  /\ apiUrl \in awaiting
        /\ awaiting' = awaiting \ {apiUrl}
        /\ roles' = doc.roles
        /\ users' = doc.users
        /\ cache' = cleared.cache
        /\ permissionCache' = cleared.permissionCache
        /\ memoWildcardMatch' = cleared.memo
        /\ sameArray' = {}
        /\ last' = [Call("loadConfigFromApi") EXCEPT !.ok = v.ok, !.err = v.err]
        /\ UNCHANGED <<emitting, resolving>>

\* loadConfigFromApi resumed when axios.get rejects, or resolves with a status
\* other than 200: it raises before assigning this.config.
LoadConfigFromApiFailed(apiUrl) ==
    /\ apiUrl \in awaiting
    /\ awaiting' = awaiting \ {apiUrl}
    /\ last' = [Call("loadConfigFromApi") EXCEPT
                    !.ok = FALSE, !.err = Error("FetchFailed", "")]
    /\ UNCHANGED <<roles, users, cache, permissionCache, memoWildcardMatch, emitting,
                 sameArray, resolving>>

\* loadConfigFromFirestore: this.firestore is null from construction on and
\* nothing assigns it, so every call raises before reading anything.
LoadConfigFromFirestore ==
    /\ last' = [Call("loadConfigFromFirestore") EXCEPT
                    !.ok = FALSE, !.err = Error("FirestoreNotInitialized", "")]
    /\ UNCHANGED <<roles, users, cache, permissionCache, memoWildcardMatch, awaiting, emitting,
                 sameArray, resolving>>

\* The whole API on configurations over DecisionRoleNames.
Next ==
    \/ \E id \in UserIds, role \in DecisionRoleNames \cup {"constructor"},
          rq \in Requests :
           CallHasPermission(id, role, rq[1], rq[2])
    \/ \E role \in DecisionRoleNames \cup {"constructor"} :
           CallGetPermissionsForRole(role)
    \/ \E n \in DecisionRoleNames \cup {"constructor"}, ps \in NewRolePermissions,
          inh \in {<<>>} \cup {<<m>> : m \in DecisionRoleNames} :
           CallAddRole(n, ps, inh)
    \/ \E n \in DecisionRoleNames \cup {"constructor"} : CallRemoveRole(n)
    \/ \E n \in DecisionRoleNames \cup {"constructor"}, p \in NewPermissions :
           CallAddPermissionToRole(n, p)
    \/ CallClearCache
    \/ \E doc \in ConfigDocuments : FileChanged(doc)
    \/ FileChangedUnreadable
    \/ \E apiUrl \in ApiUrls : LoadConfigFromApiAwait(apiUrl)
    \/ \E apiUrl \in ApiUrls, doc \in ConfigDocuments : LoadConfigFromApi(apiUrl, doc)
    \/ \E apiUrl \in ApiUrls : LoadConfigFromApiFailed(apiUrl)
    \/ LoadConfigFromFirestore

Spec == Init /\ [][Next]_vars

\* The calls that clear cache tiers, among reads that fill them, on the roles
\* of the documents.
NextTiers ==
    \/ \E id \in UserIds, role \in DecisionRoleNames, rq \in Requests :
           CallHasPermission(id, role, rq[1], rq[2])
    \/ \E role \in DecisionRoleNames : CallGetPermissionsForRole(role)
    \/ \E n \in DecisionRoleNames, ps \in NewRolePermissions : CallAddRole(n, ps, <<>>)
    \/ \E n \in DecisionRoleNames : CallRemoveRole(n)
    \/ \E n \in DecisionRoleNames, p \in NewPermissions : CallAddPermissionToRole(n, p)
    \/ CallClearCache
    \/ \E doc \in ConfigDocuments : FileChanged(doc)
    \/ \E apiUrl \in ApiUrls : LoadConfigFromApiAwait(apiUrl)
    \/ \E apiUrl \in ApiUrls, doc \in ConfigDocuments : LoadConfigFromApi(apiUrl, doc)
    \/ LoadConfigFromFirestore

SpecTiers == Init /\ [][NextTiers]_vars

\* Role mutations and role resolution on role graphs over RoleNames.
InitRoles == Constructed(ConfigGraph)

NextRoles ==
    \/ \E role \in RoleNames \cup {"constructor"} : CallGetPermissionsForRole(role)
    \/ \E n \in RoleNames \cup {"constructor"}, ps \in NewRolePermissions,
          inh \in {<<>>} \cup {<<m>> : m \in RoleNames} :
           CallAddRole(n, ps, inh)
    \/ \E n \in RoleNames \cup {"constructor"} : CallRemoveRole(n)
    \/ \E n \in RoleNames \cup {"constructor"}, p \in NewPermissions :
           CallAddPermissionToRole(n, p)
    \/ CallClearCache

SpecRoles == InitRoles /\ [][NextRoles]_vars

\* The decision calls, single and over lists, for users whose role exists and
\* for a user whose role "C" does not.
NextChecks ==
    \/ \E id \in UserIds, role \in RoleNames, rq \in Requests :
           CallHasPermission(id, role, rq[1], rq[2])
    \/ \E id \in UserIds, role \in RoleNames,
          ps \in Lists(CheckPermissions, MaxChecks), ctx \in CheckContexts :
           CallCheckMultiplePermissions(id, role, ps, ctx)
    \/ \E id \in UserIds, role \in RoleNames,
          ps \in Lists(CheckPermissions, MaxChecks), ctx \in CheckContexts :
           CallCheckAnyPermission(id, role, ps, ctx)
    \/ CallClearCache

SpecChecks == Init /\ [][NextChecks]_vars

\* matchesWildcard(permission, requested) on its own: a new instance and one
\* pair of arguments, with which the matcher is called, and called again once
\* the pattern is in the memo.
InitMatch ==
    \E permission \in Patterns, requested \in RequestedStrings :
        /\ roles = ConfigPlain.roles
        /\ users = ConfigPlain.users
        /\ cache = EmptyMap
        /\ permissionCache = EmptyMap
        /\ memoWildcardMatch = EmptyMap
        /\ awaiting = {}
        /\ emitting = <<>>
        /\ sameArray = {}
        /\ resolving = <<>>
        /\ last = [Call("constructor") EXCEPT
                       !.permission = permission, !.requested = requested]

CallMatchesWildcard ==
    LET m == MatchesWildcard(last.permission, last.requested, memoWildcardMatch)
    IN  /\ memoWildcardMatch' = m.memo
        /\ last' = [last EXCEPT !.op = "matchesWildcard", !.result = m.result]
        /\ UNCHANGED <<roles, users, cache, permissionCache, awaiting, emitting, sameArray, resolving>>

NextMatch == CallMatchesWildcard

SpecMatch == InitMatch /\ [][NextMatch]_vars

\* Configuration replacement, by file reload and by loadConfigFromApi, with
\* documents that validateConfig accepts and one that it rejects, and the
\* decision and query calls around it.
NextReplace ==
    \/ \E id \in UserIds, role \in DecisionRoleNames, rq \in Requests :
           CallHasPermission(id, role, rq[1], rq[2])
    \/ \E role \in DecisionRoleNames : CallGetPermissionsForRole(role)
    \/ \E doc \in ConfigDocuments \cup {ConfigRejected} : FileChanged(doc)
    \/ FileChangedUnreadable
    \/ \E apiUrl \in ApiUrls : LoadConfigFromApiAwait(apiUrl)
    \/ \E apiUrl \in ApiUrls, doc \in ConfigDocuments \cup {ConfigRejected} :
           LoadConfigFromApi(apiUrl, doc)
    \/ \E apiUrl \in ApiUrls : LoadConfigFromApiFailed(apiUrl)

SpecReplace == Init /\ [][NextReplace]_vars

\* addRole and removeRole with a subscriber registered for their event.  The
\* call runs to emit(), which invokes the subscriber synchronously: the call is
\* suspended in `emitting` while the subscriber runs and may itself call
\* hasPermission and getPermissionsForRole.  A call that raised before emit()
\* has returned already.  The subscriber is handed the event in `last`.
Emitted(call, event, m) ==
    LET cleared == ClearInternalCache(cache, permissionCache, memoWildcardMatch)
    IN  /\ emitting = <<>>
        /\ roles' = m.roles
        /\ cache' = IF m.ok THEN cleared.cache ELSE cache
        /\ permissionCache' = IF m.ok THEN cleared.permissionCache ELSE permissionCache
        /\ memoWildcardMatch' = IF m.ok THEN cleared.memo ELSE memoWildcardMatch
        /\ emitting' = IF m.ok THEN <<call>> ELSE <<>>
        /\ last' = IF m.ok THEN [call EXCEPT !.op = event]
                           ELSE [call EXCEPT !.ok = FALSE, !.err = m.err]
        /\ sameArray' = SameArrayLeft(sameArray, m.roles)
        /\ UNCHANGED <<users, awaiting, resolving>>

AddRoleEmit(roleName, permissions, inherits) ==
    Emitted([Call("addRole") EXCEPT !.role = roleName, !.permissions = permissions,
                                    !.inherits = inherits],
            "roleAdded", AddRole(roles, roleName, permissions, inherits))

RemoveRoleEmit(roleName) ==
    Emitted([Call("removeRole") EXCEPT !.role = roleName],
            "roleRemoved", RemoveRole(roles, roleName))

\* The subscriber throws: EventEmitter.emit lets the exception through, so it
\* leaves addRole/removeRole before logAudit is reached.
SubscriberRaises ==
    /\ emitting # <<>>
    /\ emitting' = <<>>
    /\ last' = [emitting[1] EXCEPT !.ok = FALSE, !.err = Error("SubscriberError", "")]
    /\ UNCHANGED <<roles, users, cache, permissionCache, memoWildcardMatch, awaiting,
                 sameArray, resolving>>

\* The subscriber returned and the call goes on to logAudit, its last
\* statement.  fs.appendFileSync either writes the record or throws (path not
\* writable, disk full), and nothing between it and the caller catches.
LogAudit(written) ==
    /\ emitting # <<>>
    /\ emitting' = <<>>
    /\ last' = IF written THEN emitting[1]
               ELSE [emitting[1] EXCEPT !.ok = FALSE,
                                        !.err = Error("AuditWriteFailed", "")]
    /\ UNCHANGED <<roles, users, cache, permissionCache, memoWildcardMatch, awaiting,
                 sameArray, resolving>>

NextEvents ==
    \/ \E id \in UserIds, role \in DecisionRoleNames, rq \in Requests :
           CallHasPermission(id, role, rq[1], rq[2])
    \/ \E role \in DecisionRoleNames : CallGetPermissionsForRole(role)
    \/ \E n \in DecisionRoleNames, ps \in NewRolePermissions,
          inh \in {<<>>} \cup {<<m>> : m \in DecisionRoleNames} :
           AddRoleEmit(n, ps, inh)
    \/ \E n \in DecisionRoleNames : RemoveRoleEmit(n)
    \/ SubscriberRaises
    \/ \E written \in BOOLEAN : LogAudit(written)

SpecEvents == Init /\ [][NextEvents]_vars

\* The caller pushes a permission onto the array its last call returned.
\* getRolePermissions returns the very array it stored in (or found in)
\* this.cache, so the push lands in the cache entry of that role.
CallerPushesReturned(permission) ==
    /\ last.op = "getPermissionsForRole" /\ last.ok
    /\ Len(cache[last.role]) < MaxPerms
    /\ cache' = [cache EXCEPT ![last.role] = Append(@, permission)]
    /\ last' = [Call("callerPush") EXCEPT !.role = last.role, !.permission = permission]
    /\ UNCHANGED <<roles, users, permissionCache, memoWildcardMatch, awaiting, emitting,
                 sameArray, resolving>>

\* The caller pushes a permission onto the permissions array it passed to its
\* last call, a successful addRole.  addRole stored that very array in
\* this.config.roles, so the push lands in the role; no cache is cleared.
CallerPushesPassed(permission) ==
    /\ last.op = "addRole" /\ last.ok
    /\ Len(roles[last.role].permissions) < MaxPerms
    /\ roles' = PushedThrough([roles EXCEPT ![last.role].permissions = Append(@, permission)],
                              sameArray, last.role)
    /\ last' = [Call("callerPush") EXCEPT !.role = last.role, !.permission = permission]
    /\ UNCHANGED <<users, cache, permissionCache, memoWildcardMatch, awaiting, emitting,
                 sameArray, resolving>>

\* Callers that keep and mutate the arrays they exchanged with the instance.
NextAlias ==
    \/ \E id \in UserIds, role \in DecisionRoleNames, rq \in Requests :
           CallHasPermission(id, role, rq[1], rq[2])
    \/ \E role \in DecisionRoleNames : CallGetPermissionsForRole(role)
    \/ \E n \in DecisionRoleNames, ps \in NewRolePermissions,
          inh \in {<<>>} \cup {<<m>> : m \in DecisionRoleNames} :
           CallAddRole(n, ps, inh)
    \/ \E n \in DecisionRoleNames : CallRemoveRole(n)
    \/ \E p \in NewPermissions : CallerPushesReturned(p)
    \/ \E p \in NewPermissions : CallerPushesPassed(p)

SpecAlias == Init /\ [][NextAlias]_vars

\* addPermissionToRole on a chain of roles, between calls that fill the role
\* cache and the decision cache.
InitInvalidate == Constructed(ConfigChain)

NextInvalidate ==
    \/ \E id \in UserIds, role \in RoleNames, rq \in Requests :
           CallHasPermission(id, role, rq[1], rq[2])
    \/ \E role \in RoleNames : CallGetPermissionsForRole(role)
    \/ \E n \in RoleNames, p \in NewPermissions : CallAddPermissionToRole(n, p)
    \/ CallClearCache

SpecInvalidate == InitInvalidate /\ [][NextInvalidate]_vars

\* Roles added and removed at run time by a caller that passes one array to
\* more than one addRole, and permissions pushed onto them.
InitShared == \E doc \in ConfigDocuments : Constructed(doc)

NextShared ==
    \/ \E n \in RoleNames, ps \in NewRolePermissions : CallAddRole(n, ps, <<>>)
    \/ \E n \in RoleNames : CallAddRoleSameArray(n)
    \/ \E n \in RoleNames, p \in NewPermissions : CallAddPermissionToRole(n, p)
    \/ \E n \in RoleNames : CallRemoveRole(n)

SpecShared == InitShared /\ [][NextShared]_vars

\* Deepest getRolePermissions call stack the model lets build.
MaxDepth == 4

\* A role that lists itself, first or after another role.
ConfigSelf ==
    [roles |-> ("A" :> [permissions |-> << <<"w">> >>, inherits |-> <<"B", "A">>]) @@
               ("B" :> [permissions |-> << <<"r", ":", "a">> >>, inherits |-> <<>>]) @@
               ("C" :> [permissions |-> << <<"r", ":", "*">> >>, inherits |-> <<"C">>]),
     users |-> EmptyMap]

\* getPermissionsForRole(role) is called: it calls getRolePermissions(role).
GetPermissionsForRoleCalled(role) ==
    /\ resolving = <<>>
    /\ resolving' = <<Running([Call("getPermissionsForRole") EXCEPT !.role = role],
                              role, cache)>>
    /\ UNCHANGED <<roles, users, cache, permissionCache, memoWildcardMatch, awaiting,
                   emitting, sameArray, last>>

\* hasPermission is called.  With a cached decision, a matching denies or a
\* matching grant of the user it returns without getRolePermissions;
\* otherwise it calls getRolePermissions(user.role).
HasPermissionCalled(id, role, permission, context) ==
    LET h == HasPermissionResolves(users, permissionCache, memoWildcardMatch,
                                   [id |-> id, role |-> role], permission, context)
    IN  /\ resolving = <<>>
        /\ IF h.resolves
           THEN /\ resolving' = <<Running([Call("hasPermission") EXCEPT
                                               !.id = id, !.role = role,
                                               !.permission = permission,
                                               !.context = context],
                                          role, cache)>>
                /\ memoWildcardMatch' = h.memo
                /\ UNCHANGED <<roles, users, cache, permissionCache, awaiting, emitting,
                               sameArray, last>>
           ELSE CallHasPermission(id, role, permission, context)

\* The getRolePermissions call that was just made runs to the head of its loop.
GetRolePermissionsEnters ==
    /\ resolving # <<>>
    /\ resolving[1].calling # <<>>
    /\ Len(resolving[1].stack) < MaxDepth
    /\ resolving' = <<GetRolePermissionsEntered(roles, cache, resolving[1])>>
    /\ UNCHANGED <<roles, users, cache, permissionCache, memoWildcardMatch, awaiting,
                   emitting, sameArray, last>>

\* The innermost getRolePermissions call makes one turn of its loop.
GetRolePermissionsLoops ==
    /\ resolving # <<>>
    /\ resolving[1].calling = <<>>
    /\ resolving[1].stack # <<>>
    /\ LET r == GetRolePermissionsLooped(cache, resolving[1])
       IN  /\ resolving' = <<r.run>>
           /\ cache' = r.cache
    /\ UNCHANGED <<roles, users, permissionCache, memoWildcardMatch, awaiting,
                   emitting, sameArray, last>>

\* The outermost getRolePermissions call is over, and the public call ends:
\* getPermissionsForRole returns the array or lets the error through;
\* hasPermission matches the array, stores the decision and returns it, or
\* lets the error through with nothing stored.
PublicCallReturns ==
    /\ resolving # <<>>
    /\ resolving[1].returned # <<>>
    /\ LET call == resolving[1].call
           got == resolving[1].returned[1]
           byRole == SomeMatches(got.value, FullPermission(call.permission, call.context),
                                 memoWildcardMatch)
           decided == call.op = "hasPermission" /\ got.ok
       IN  /\ permissionCache' =
                  IF decided
                  THEN permissionCache @@
                       (CacheKey(call.id, call.permission, call.context) :> byRole.hit)
                  ELSE permissionCache
           /\ memoWildcardMatch' = IF decided THEN byRole.memo ELSE memoWildcardMatch
           /\ last' = IF call.op = "hasPermission"
                      THEN [call EXCEPT !.ok = got.ok, !.err = got.err,
                                        !.result = got.ok /\ byRole.hit]
                      ELSE [call EXCEPT !.ok = got.ok, !.err = got.err,
                                        !.value = got.value]
    /\ resolving' = <<>>
    /\ UNCHANGED <<roles, users, cache, awaiting, emitting, sameArray>>

\* Calls made while no other call runs: a call runs to its end before the
\* next statement of the caller.
ClearCacheCalled == resolving = <<>> /\ CallClearCache

AddRoleCalled(roleName, permissions, inherits) ==
    resolving = <<>> /\ CallAddRole(roleName, permissions, inherits)

RemoveRoleCalled(roleName) == resolving = <<>> /\ CallRemoveRole(roleName)

\* The steps of a running call.
RunningCallSteps ==
    \/ GetRolePermissionsEnters
    \/ GetRolePermissionsLoops
    \/ PublicCallReturns

InitTerminate ==
    \E doc \in {ConfigGraph, ConfigDangling, ConfigCyclic, ConfigSelf} : Constructed(doc)

NextTerminate ==
    \/ \E role \in RoleNames : GetPermissionsForRoleCalled(role)
    \/ \E id \in UserIds, role \in RoleNames, rq \in Requests :
           HasPermissionCalled(id, role, rq[1], rq[2])
    \/ GetRolePermissionsEnters
    \/ GetRolePermissionsLoops
    \/ PublicCallReturns
    \/ ClearCacheCalled
    \/ \E n \in RoleNames, ps \in NewRolePermissions : AddRoleCalled(n, ps, <<n>>)
    \/ \E n \in RoleNames : RemoveRoleCalled(n)

\* A call that began goes on: JavaScript runs a synchronous call to its end,
\* and nothing can take the thread from it.
SpecTerminate == InitTerminate /\ [][NextTerminate]_vars /\ WF_vars(RunningCallSteps)

\* listRoles(), listUsers() and hasRole(roleName) read the configuration and
\* touch nothing.  Of the array that listRoles and listUsers return the call
\* record keeps the names, not their order.
CallListRoles ==
    /\ last' = [Call("listRoles") EXCEPT !.names = ListRoles(roles)]
    /\ UNCHANGED <<roles, users, cache, permissionCache, memoWildcardMatch,
                   awaiting, emitting, sameArray, resolving>>

CallListUsers ==
    /\ last' = [Call("listUsers") EXCEPT !.names = ListUsers(users)]
    /\ UNCHANGED <<roles, users, cache, permissionCache, memoWildcardMatch,
                   awaiting, emitting, sameArray, resolving>>

CallHasRole(roleName) ==
    /\ last' = [Call("hasRole") EXCEPT !.role = roleName,
                                       !.result = HasRole(roles, roleName)]
    /\ UNCHANGED <<roles, users, cache, permissionCache, memoWildcardMatch,
                   awaiting, emitting, sameArray, resolving>>

\* The decision and query calls, returning and raising, with addRole and
\* removeRole among them.
InitQueries == \E doc \in {ConfigOverrides, ConfigDangling} : Constructed(doc)

NextQueries ==
    \/ \E id \in UserIds, role \in RoleNames \cup {"constructor"}, rq \in Requests :
           CallHasPermission(id, role, rq[1], rq[2])
    \/ \E id \in UserIds, role \in RoleNames, p \in CheckPermissions :
           CallCheckMultiplePermissions(id, role, <<p>>, Undefined)
    \/ \E id \in UserIds, role \in RoleNames, p \in CheckPermissions :
           CallCheckAnyPermission(id, role, <<p>>, Undefined)
    \/ \E role \in RoleNames \cup {"constructor"} : CallGetPermissionsForRole(role)
    \/ CallListRoles
    \/ CallListUsers
    \/ \E n \in RoleNames \cup {"constructor"} : CallHasRole(n)
    \/ CallClearCache
    \/ \E n \in RoleNames, ps \in NewRolePermissions : CallAddRole(n, ps, <<>>)
    \/ \E n \in RoleNames : CallRemoveRole(n)

SpecQueries == InitQueries /\ [][NextQueries]_vars

\* Resolution and decisions on role graphs in which resolution can fail part
\* of the way, and the mutations that repair or break them.
InitResolve == \E doc \in {ConfigDangling, ConfigCyclic} : Constructed(doc)

NextResolve ==
    \/ \E id \in UserIds, role \in RoleNames, rq \in Requests :
           CallHasPermission(id, role, rq[1], rq[2])
    \/ \E role \in RoleNames : CallGetPermissionsForRole(role)
    \/ \E n \in RoleNames, ps \in NewRolePermissions : CallAddRole(n, ps, <<>>)
    \/ \E n \in RoleNames : CallRemoveRole(n)
    \/ CallClearCache

SpecResolve == InitResolve /\ [][NextResolve]_vars

\* Decisions that fill the pattern memo, between clearCache() calls and file
\* reloads, which leave the memo as it is, and a mutation, which empties it.
InitMemo == \E doc \in ConfigDocuments \cup {ConfigStars} : Constructed(doc)

NextMemo ==
    \/ \E id \in UserIds, role \in DecisionRoleNames, rq \in Requests :
           CallHasPermission(id, role, rq[1], rq[2])
    \/ CallClearCache
    \/ \E doc \in ConfigDocuments \cup {ConfigStars} : FileChanged(doc)
    \/ \E n \in DecisionRoleNames : CallRemoveRole(n)

SpecMemo == InitMemo /\ [][NextMemo]_vars

\* Resolution on the diamond, with what each role grants growing and the
\* caches cleared in between.
InitDiamond == Constructed(ConfigDiamond)

NextDiamond ==
    \/ \E role \in DiamondNames : CallGetPermissionsForRole(role)
    \/ \E n \in DiamondNames, p \in NewPermissions : CallAddPermissionToRole(n, p)
    \/ CallClearCache

SpecDiamond == InitDiamond /\ [][NextDiamond]_vars

\* Values found where a document should have a permissions array, an inherits
\* array, a role and the roles mapping.  JUndefined stands for a member the
\* object lacks.
PermissionsShapes == {JUndefined, JNull, JString("r"), JArray(<<JString("r")>>)}

InheritsShapes ==
    {JUndefined, JNull, JString(""), JString("B"), JArray(<<JString("B")>>), JObject(<<>>)}

\* An object with the members given, those that are JUndefined left out.
ObjectOf(members) ==
    JObject(SelectSeq(members, LAMBDA m : m[2].type # "undefined"))

RoleShapes ==
    {JNull, JString("x"), JArray(<<>>)} \cup
    {ObjectOf(<< <<"permissions", p>>, <<"inherits", i>> >>) :
        p \in PermissionsShapes, i \in InheritsShapes}

RolesShapes ==
    {JUndefined, JNull, JString(""), JString("x"), JArray(<<>>), JObject(<<>>)} \cup
    {JArray(<<r>>) : r \in RoleShapes} \cup
    {JObject(<< <<"A", r>> >>) : r \in RoleShapes} \cup
    {JObject(<< <<"A", r[1]>>, <<"B", r[2]>> >>) : r \in RoleShapes \X RoleShapes}

JsonDocuments ==
    {JNull, JString("x")} \cup {ObjectOf(<< <<"roles", r>> >>) : r \in RolesShapes}

\* validateConfig on its own: a document as JSON.parse or response.data yields
\* it, on which validateConfig is called.
InitValidate ==
    \E document \in JsonDocuments :
        /\ roles = ConfigPlain.roles
        /\ users = ConfigPlain.users
        /\ cache = EmptyMap
        /\ permissionCache = EmptyMap
        /\ memoWildcardMatch = EmptyMap
        /\ awaiting = {}
        /\ emitting = <<>>
        /\ sameArray = {}
        /\ resolving = <<>>
        /\ last = [Call("constructor") EXCEPT !.document = document]

CallValidateConfig ==
    LET v == ValidateJson(last.document)
    IN  /\ last' = [last EXCEPT !.op = "validateConfig", !.ok = v.ok, !.err = v.err]
        /\ UNCHANGED <<roles, users, cache, permissionCache, memoWildcardMatch,
                       awaiting, emitting, sameArray, resolving>>

NextValidate == CallValidateConfig

SpecValidate == InitValidate /\ [][NextValidate]_vars

-----------------------------------------------------------------------------
(* The role graph of a configuration *)

\* The names a role lists in inherits; an absent name lists none.
Parents(rolesCfg, n) ==
    IF n \in DOMAIN rolesCfg THEN Range(rolesCfg[n].inherits) ELSE {}

RECURSIVE Closure(_, _)
Closure(rolesCfg, S) ==
    LET T == S \cup UNION {Parents(rolesCfg, n) : n \in S}
    IN  IF T = S THEN S ELSE Closure(rolesCfg, T)

\* The names reachable from n through one or more inherits edges.
Reachable(rolesCfg, n) == Closure(rolesCfg, Parents(rolesCfg, n))

OnCycle(rolesCfg, n) == n \in Reachable(rolesCfg, n)

\* n and everything reachable from it.
Below(rolesCfg, n) == {n} \cup Reachable(rolesCfg, n)

\* Every role reachable from n exists and no inheritance cycle is reachable.
WellFounded(rolesCfg, n) ==
    /\ Below(rolesCfg, n) \subseteq DOMAIN rolesCfg
    /\ \A m \in Below(rolesCfg, n) : ~OnCycle(rolesCfg, m)

\* The union of the own permissions of n and of every role reachable from it.
UnionBelow(rolesCfg, n) ==
    UNION {Range(rolesCfg[m].permissions) : m \in Below(rolesCfg, n) \cap DOMAIN rolesCfg}

\* Whether a pattern matches a requested string, without any memo.
Matches(pattern, requested) == MatchesWildcard(pattern, requested, EmptyMap).result

AnyMatches(patterns, requested) ==
    \E i \in 1..Len(patterns) : Matches(patterns[i], requested)

LastFull == FullPermission(last.permission, last.context)

-----------------------------------------------------------------------------
(* Decision precedence: C1, C2, C3 *)

\* C1: deny always wins.  A hasPermission call for a user with an override
\* entry one of whose denies patterns matches the full permission key returns
\* false, whatever the override permissions and the role grant.
C1_DenyAlwaysWins ==
    ( /\ last.op = "hasPermission"
      /\ last.id \in DOMAIN users
      /\ AnyMatches(users[last.id].denies, LastFull) )
    => (last.ok /\ last.result = FALSE)

\* C2: grant override beats role absence.  When no denies pattern of the
\* user's override entry matches the full permission key and one of its
\* permissions patterns does, hasPermission returns true.
C2_GrantOverride ==
    ( /\ last.op = "hasPermission"
      /\ last.id \in DOMAIN users
      /\ ~AnyMatches(users[last.id].denies, LastFull)
      /\ AnyMatches(users[last.id].permissions, LastFull) )
    => (last.ok /\ last.result = TRUE)

\* C3: role fall-through.  When the user has no override entry, or neither its
\* denies nor its permissions match the key, hasPermission returns true if and
\* only if an entry of the resolved permission set of the user's role matches.
C3_RoleFallThrough ==
    ( /\ last.op = "hasPermission"
      /\ \/ last.id \notin DOMAIN users
         \/ /\ ~AnyMatches(users[last.id].denies, LastFull)
            /\ ~AnyMatches(users[last.id].permissions, LastFull)
      /\ last.role \in DOMAIN roles
      /\ WellFounded(roles, last.role) )
    => ( /\ last.ok
         /\ last.result <=> \E p \in UnionBelow(roles, last.role) : Matches(p, LastFull) )

-----------------------------------------------------------------------------
(* Role graph resolver: C4, C5, C6, C7 *)

\* C4: for a role R such that every role reachable from R exists and no
\* inheritance cycle is reachable from R, getPermissionsForRole(R) returns
\* exactly the union of the own permissions of R and of every role reachable
\* from R; for a role without inherits that is its own permission set.
C4_ResolvedIsUnion ==
    ( /\ last.op = "getPermissionsForRole"
      /\ WellFounded(roles, last.role) )
    => ( /\ last.ok
         /\ Range(last.value) = UnionBelow(roles, last.role)
         /\ (roles[last.role].inherits = <<>>
                => Range(last.value) = Range(roles[last.role].permissions)) )

\* getPermissionsForRole("A") returned the permissions of the chain A -> B -> C,
\* three roles with three different own permissions.
C4_Witness ==
    /\ last.op = "getPermissionsForRole" /\ last.role = "A" /\ last.ok
    /\ WellFounded(roles, "A")
    /\ Reachable(roles, "A") = {"B", "C"}
    /\ "C" \in Range(roles["B"].inherits)
    /\ Cardinality(Range(last.value)) = 3

\* C5: monotonic union.  Whenever getPermissionsForRole(A) succeeds, its result
\* contains the result of getPermissionsForRole for every role A lists in
\* inherits, and for every role further down the chain, and those calls succeed.
C5_MonotonicUnion ==
    ( /\ last.op = "getPermissionsForRole"
      /\ last.ok )
    => \A b \in Reachable(roles, last.role) :
           LET rb == GetRolePermissions(roles, cache, b, {})
           IN  rb.ok /\ Range(rb.value) \subseteq Range(last.value)

\* A -> B -> C resolved for A, each result strictly larger than the next.
C5_Witness ==
    /\ last.op = "getPermissionsForRole" /\ last.role = "A" /\ last.ok
    /\ "B" \in Range(roles["A"].inherits)
    /\ "B" \in DOMAIN roles /\ "C" \in Range(roles["B"].inherits)
    /\ LET rb == GetRolePermissions(roles, cache, "B", {})
           rc == GetRolePermissions(roles, cache, "C", {})
       IN  /\ rb.ok /\ rc.ok
           /\ Range(rc.value) # Range(rb.value)
           /\ Range(rb.value) # Range(last.value)

\* C6: getPermissionsForRole(R) raises CircularInheritance whenever an
\* inheritance cycle is reachable from R and every role reachable from R
\* exists, and the role the error names lies on a cycle reachable from R.
C6_CircularInheritance ==
    ( /\ last.op = "getPermissionsForRole"
      /\ Below(roles, last.role) \subseteq DOMAIN roles
      /\ \E m \in Below(roles, last.role) : OnCycle(roles, m) )
    => ( /\ ~last.ok
         /\ last.err.kind = "CircularInheritance"
         /\ last.err.role \in Below(roles, last.role)
         /\ OnCycle(roles, last.err.role) )

\* A inherits B and B inherits A, and getPermissionsForRole("B") raised
\* CircularInheritance.
C6_Witness ==
    /\ last.op = "getPermissionsForRole"
    /\ last.err.kind = "CircularInheritance"
    /\ {"A", "B"} \subseteq DOMAIN roles
    /\ roles["A"].inherits = <<"B">> /\ roles["B"].inherits = <<"A">>
    /\ last.role = "B"

\* C7: if resolving R reaches, directly or through inherits, a role name that
\* is absent from the configuration, getPermissionsForRole(R) raises
\* RoleNotFound naming that role and returns no list: a call that returned a
\* list met no absent name, and a call for an absent R raises RoleNotFound for R.
C7_RoleNotFound ==
    last.op = "getPermissionsForRole"
    => ( /\ last.ok => Below(roles, last.role) \subseteq DOMAIN roles
         /\ last.role \notin DOMAIN roles
                => (~last.ok /\ last.err = Error("RoleNotFound", last.role))
         /\ last.err.kind = "RoleNotFound"
                => last.err.role \in Below(roles, last.role) \ DOMAIN roles )

-----------------------------------------------------------------------------
(* Unknown roles, caches: C8, C9, C10 *)

\* C8: if the user's role does not exist in the configuration, hasPermission
\* raises RoleNotFound for that role instead of returning a boolean, for
\* every user, permission and context.
C8_UnknownRoleRaises ==
    ( /\ last.op = "hasPermission"
      /\ last.role \notin DOMAIN roles )
    => (~last.ok /\ last.err = Error("RoleNotFound", last.role))

\* C9: the caches are purely an optimisation.  Every hasPermission and
\* getPermissionsForRole call returns the value, or raises the error, that the
\* same call gives on the same configuration with no cache entry to read.
C9_CachesAreAnOptimisation ==
    /\ last.op = "hasPermission" =>
           LET r == HasPermission(roles, users, EmptyMap, EmptyMap, EmptyMap,
                                  [id |-> last.id, role |-> last.role],
                                  last.permission, last.context)
           IN  last.ok = r.ok /\ last.err = r.err /\ last.result = r.result
    /\ last.op = "getPermissionsForRole" =>
           LET r == GetRolePermissions(roles, EmptyMap, last.role, {})
           IN  last.ok = r.ok /\ last.err = r.err /\ last.value = r.value

AllTiersEmpty ==
    DOMAIN cache = {} /\ DOMAIN permissionCache = {} /\ DOMAIN memoWildcardMatch = {}

\* C10: after every successful addRole, removeRole,
\* addPermissionToRole and every successful configuration replacement, all
\* three cache tiers are empty.
C10_AllTiersEmptied ==
    ( /\ last.op \in {"addRole", "removeRole", "addPermissionToRole",
                      "fileReload", "loadConfigFromApi", "loadConfigFromFirestore"}
      /\ last.ok )
    => AllTiersEmpty

-----------------------------------------------------------------------------
(* Configuration replacement: C11, C12 *)

ConfigAndCaches == <<roles, users, cache, permissionCache, memoWildcardMatch>>

\* C11: a configuration replacement that fails, by file reload or by
\* loadConfigFromApi, because the document is rejected by validation or the
\* fetch or parse fails, leaves the active configuration and the entries of
\* every cache tier as they were, so that later calls answer from the previous
\* configuration.
C11_FailedReplacementKeepsState ==
    [][ ( /\ last' # last
          /\ last'.op \in {"fileReload", "loadConfigFromApi"}
          /\ ~last'.ok )
        => UNCHANGED ConfigAndCaches ]_vars

\* C12: the configuration swap of loadConfigFromApi is atomic with respect to
\* reads.  While the call awaits the response the configuration and the caches
\* are those it found, so interleaved calls are answered from the old
\* configuration; the step that applies the response writes the configuration
\* and empties every cache tier at once, so no later call meets the new
\* configuration together with an entry computed from the old one; a response
\* that is not applied changes nothing.
C12_SwapIsAtomic ==
    [][ /\ (awaiting' \ awaiting # {}) => UNCHANGED ConfigAndCaches
        /\ (awaiting \ awaiting' # {}) =>
               \/ UNCHANGED ConfigAndCaches
               \/ /\ last'.op = "loadConfigFromApi"
                  /\ [roles |-> roles', users |-> users']
                         \in ConfigDocuments \cup {ConfigRejected}
                  /\ DOMAIN cache' = {}
                  /\ DOMAIN permissionCache' = {}
                  /\ DOMAIN memoWildcardMatch' = {} ]_vars

\* A loadConfigFromApi call is awaiting its response, and a hasPermission call
\* made meanwhile was answered true from the old configuration (role A holds
\* "r", which no other document grants) and left entries in all three caches.
C12_Witness ==
    /\ awaiting # {}
    /\ last.op = "hasPermission" /\ last.ok /\ last.result
    /\ last.role = "A" /\ LastFull = <<"r">>
    /\ roles = ConfigOverrides.roles
    /\ DOMAIN cache # {} /\ DOMAIN permissionCache # {} /\ DOMAIN memoWildcardMatch # {}

-----------------------------------------------------------------------------
(* Role mutations: C13, C14, C15, C16 *)

\* The roles of a configuration that list name in their inherits.
Listers(rolesCfg, name) ==
    {n \in DOMAIN rolesCfg :
        \E i \in 1..Len(rolesCfg[n].inherits) : rolesCfg[n].inherits[i] = name}

\* C13: removeRole(name) on an existing role that another role lists in its
\* inherits fails with RoleInUse naming exactly the roles that list it, and
\* leaves every role, all user overrides and all caches as they were.
C13_RemoveRoleInUse ==
    [][ ( /\ last'.op = "removeRole"
          /\ last'.role \in DOMAIN roles
          /\ Listers(roles, last'.role) \ {last'.role} # {} )
        => ( /\ ~last'.ok
             /\ last'.err.kind = "RoleInUse"
             /\ last'.err.role = last'.role
             /\ last'.err.by = Listers(roles, last'.role)
             /\ UNCHANGED ConfigAndCaches ) ]_vars

\* removeRole("C") was refused naming two inheriting roles; C is still there
\* and the role cache still holds entries.
C13_Witness ==
    /\ last.op = "removeRole" /\ last.role = "C"
    /\ last.err.kind = "RoleInUse"
    /\ Cardinality(last.err.by) = 2
    /\ "C" \in DOMAIN roles
    /\ DOMAIN cache # {}

\* C14: the outcome of removeRole(name) is RoleNotFound if name is absent;
\* otherwise RoleInUse if and only if some role other than name lists name in
\* its inherits; otherwise the role is deleted, hasRole(name) becomes false
\* and the caches are emptied.
C14_RemoveRoleOutcome ==
    [][ last'.op = "removeRole" =>
            IF last'.role \notin DOMAIN roles
            THEN ~last'.ok /\ last'.err = Error("RoleNotFound", last'.role)
            ELSE IF Listers(roles, last'.role) \ {last'.role} # {}
            THEN ~last'.ok /\ last'.err.kind = "RoleInUse"
            ELSE /\ last'.ok
                 /\ roles' = [n \in DOMAIN roles \ {last'.role} |-> roles[n]]
                 /\ ~HasRole(roles', last'.role)
                 /\ DOMAIN cache' = {}
                 /\ DOMAIN permissionCache' = {}
                 /\ DOMAIN memoWildcardMatch' = {} ]_vars

\* C15: addRole(name, permissions, inherits) fails with RoleAlreadyExists when
\* name is already a role, leaving every role and all caches as they were;
\* otherwise it inserts the role with exactly the given permissions and
\* inherits and empties all cache tiers.
C15_AddRoleOutcome ==
    [][ last'.op = "addRole" =>
            IF last'.role \in ListRoles(roles)
            THEN /\ ~last'.ok
                 /\ last'.err = Error("RoleAlreadyExists", last'.role)
                 /\ UNCHANGED ConfigAndCaches
            ELSE /\ last'.ok
                 /\ roles' = roles @@ (last'.role :> [permissions |-> last'.permissions,
                                                      inherits |-> last'.inherits])
                 /\ users' = users
                 /\ DOMAIN cache' = {}
                 /\ DOMAIN permissionCache' = {}
                 /\ DOMAIN memoWildcardMatch' = {} ]_vars

\* How many times p occurs in a list.
Occurrences(list, p) == Cardinality({i \in 1..Len(list) : list[i] = p})

\* C16: addPermissionToRole(name, p) fails with RoleNotFound and changes
\* nothing when name is absent; on an existing role it appends p to the role's
\* own list even when p is already there, and a getPermissionsForRole(name)
\* that then returns a list contains p exactly once.
C16_AddPermissionOutcome ==
    [][ last'.op = "addPermissionToRole" =>
            IF last'.role \notin ListRoles(roles)
            THEN /\ ~last'.ok
                 /\ last'.err = Error("RoleNotFound", last'.role)
                 /\ UNCHANGED ConfigAndCaches
            ELSE /\ last'.ok
                 /\ roles'[last'.role].permissions =
                        Append(roles[last'.role].permissions, last'.permission)
                 /\ LET r == GetRolePermissions(roles', cache', last'.role, {})
                    IN  r.ok => Occurrences(r.value, last'.permission) = 1 ]_vars

-----------------------------------------------------------------------------
(* Wildcard matcher: C17, C18 *)

\* C17: the pattern "write:articles.*" matches the requested strings
\* "write:articles.section1" and "write:articles." and does not match
\* "write:articles".
C17_WildcardBoundary ==
    ( /\ last.op = "matchesWildcard"
      /\ last.permission = WriteArticlesPattern )
    => ( /\ last.requested = WriteArticlesSection1 => last.result
         /\ last.requested = WriteArticlesDot => last.result
         /\ last.requested = WriteArticles => ~last.result )

\* matchesWildcard("write:articles.*", "write:articles.") returned true, the
\* pattern compiled into the memo.
C17_Witness ==
    /\ last.op = "matchesWildcard"
    /\ last.permission = WriteArticlesPattern
    /\ last.requested = WriteArticlesDot
    /\ last.result
    /\ WriteArticlesPattern \in DOMAIN memoWildcardMatch

\* Whether s[j..] equals p[i..] with each "*" replaced by some run of zero or
\* more characters and every other character taken literally.
RECURSIVE StarMatch(_, _, _, _)
StarMatch(p, i, s, j) ==
    IF i > Len(p) THEN j > Len(s)
    ELSE IF p[i] = "*"
         THEN \E k \in j..(Len(s) + 1) : StarMatch(p, i + 1, s, k)
         ELSE j <= Len(s) /\ p[i] = s[j] /\ StarMatch(p, i + 1, s, j + 1)

\* C18: for every pattern and requested string, matchesWildcard is true if
\* and only if requested equals the pattern with each "*" replaced by some run
\* of zero or more characters, every other character of the pattern compared
\* literally and case-sensitively; a pattern without "*" matches only the
\* identical string.
C18_WildcardSemantics ==
    last.op = "matchesWildcard"
    => ( /\ last.result <=> StarMatch(last.permission, 1, last.requested, 1)
         /\ ~Includes(last.permission, "*")
                => (last.result <=> last.permission = last.requested) )

-----------------------------------------------------------------------------
(* Checks over lists: C19 *)

\* The outcome of the k-th hasPermission of a list call, made on the caches
\* the k-1 checks before it left; for k = 0 the caches the call found.
RECURSIVE CheckOutcome(_, _, _, _)
CheckOutcome(user, permissions, context, k) ==
    IF k = 0
    THEN [ok |-> TRUE, err |-> NoError, result |-> FALSE, cache |-> cache,
          permissionCache |-> permissionCache, memo |-> memoWildcardMatch]
    ELSE LET before == CheckOutcome(user, permissions, context, k - 1)
         IN  HasPermission(roles, users, before.cache, before.permissionCache,
                           before.memo, user, permissions[k], context)

\* A list call agrees with its checks taken left to right: it stops at the
\* first check that raises or returns `determining`, raising that error or
\* returning `determining`; with no such check it returns the opposite; and
\* the caches are those the last evaluated check left.
ListCallAgrees(call, determining, cacheAfter, permissionCacheAfter, memoAfter) ==
    LET user == [id |-> call.id, role |-> call.role]
        Outcome(k) == CheckOutcome(user, call.permissions, call.context, k)
        Decides(k) == ~Outcome(k).ok \/ Outcome(k).result = determining
        deciding == {k \in 1..Len(call.permissions) : Decides(k)}
        n == IF deciding = {} THEN Len(call.permissions)
             ELSE CHOOSE k \in deciding : \A j \in deciding : k <= j
    IN  /\ IF deciding = {}
           THEN call.ok /\ call.result = ~determining
           ELSE IF ~Outcome(n).ok
           THEN ~call.ok /\ call.err = Outcome(n).err
           ELSE call.ok /\ call.result = determining
        /\ cacheAfter = Outcome(n).cache
        /\ permissionCacheAfter = Outcome(n).permissionCache
        /\ memoAfter = Outcome(n).memo

\* C19: checkMultiplePermissions(user, ps, ctx) is the logical AND, and
\* checkAnyPermission(user, ps, ctx) the logical OR, of hasPermission(user, p,
\* ctx) over ps from left to right, stopping at the first determining result
\* (true for the empty list under AND, false under OR); an error raised by a
\* check that is evaluated reaches the caller and is not counted as false.
C19_ListChecks ==
    [][ /\ last'.op = "checkMultiplePermissions" =>
               ListCallAgrees(last', FALSE, cache', permissionCache', memoWildcardMatch')
        /\ last'.op = "checkAnyPermission" =>
               ListCallAgrees(last', TRUE, cache', permissionCache', memoWildcardMatch')
      ]_vars

\* checkMultiplePermissions for a user whose role does not exist, over
\* ["r:a", "r"]: the first check was granted by the user's override and
\* cached, the second went to the role and raised RoleNotFound.
C19_Witness ==
    /\ last.op = "checkMultiplePermissions"
    /\ last.role \notin DOMAIN roles
    /\ last.permissions = << <<"r", ":", "a">>, <<"r">> >>
    /\ last.context = Undefined
    /\ ~last.ok /\ last.err = Error("RoleNotFound", last.role)
    /\ CacheKey(last.id, <<"r", ":", "a">>, Undefined) \in DOMAIN permissionCache
    /\ CacheKey(last.id, <<"r">>, Undefined) \notin DOMAIN permissionCache

-----------------------------------------------------------------------------
(* Decision cache keys: C20 *)

\* The context of a triple: an absent context and '' count as the same.
ContextOf(call) == IF Truthy(call.context) THEN call.context ELSE <<>>

SameTriple(a, b) ==
    a.id = b.id /\ a.permission = b.permission /\ ContextOf(a) = ContextOf(b)

\* C20: the decision cache never serves, for one (user id, permission,
\* context) triple, a decision computed for a different triple: a
\* hasPermission call that follows a hasPermission call for a different triple
\* does not read the entry that call wrote or read.
C20_NoSharedEntry ==
    [][ ( /\ last.op = "hasPermission" /\ last.ok
          /\ last'.op = "hasPermission"
          /\ ~SameTriple(last, last') )
        => CacheKey(last'.id, last'.permission, last'.context)
              # CacheKey(last.id, last.permission, last.context) ]_vars

-----------------------------------------------------------------------------
(* Events and the audit record: C21, C22 *)

\* What a call recorded in `last` returns when made on empty caches.
FreshRole(call) == GetRolePermissions(roles, EmptyMap, call.role, {})

FreshDecision(call) ==
    HasPermission(roles, users, EmptyMap, EmptyMap, EmptyMap,
                  [id |-> call.id, role |-> call.role], call.permission, call.context)

\* The subscriber of roleAdded/roleRemoved has just been entered: the role is
\* in (resp. out of) the configuration and every cache tier is empty.
SubscriberEntered ==
    /\ (last.op = "roleAdded" /\ emitting # <<>>) =>
           /\ last.role \in ListRoles(roles)
           /\ roles[last.role] = [permissions |-> last.permissions,
                                  inherits |-> last.inherits]
           /\ AllTiersEmpty
    /\ (last.op = "roleRemoved" /\ emitting # <<>>) =>
           /\ last.role \notin ListRoles(roles)
           /\ AllTiersEmpty

\* A call made from inside the subscriber answers from the new configuration.
SubscriberCallsAnswerAnew ==
    /\ (emitting # <<>> /\ last.op = "getPermissionsForRole") =>
           /\ last.ok = FreshRole(last).ok
           /\ last.err = FreshRole(last).err
           /\ last.value = FreshRole(last).value
    /\ (emitting # <<>> /\ last.op = "hasPermission") =>
           /\ last.ok = FreshDecision(last).ok
           /\ last.err = FreshDecision(last).err
           /\ last.result = FreshDecision(last).result

\* C21: whenever a roleAdded or roleRemoved subscriber runs, the configuration
\* already contains (resp. no longer contains) the role and all cache tiers
\* have been cleared, so that a hasPermission or getPermissionsForRole call
\* made from inside the subscriber reflects the new configuration; and an
\* addRole or removeRole call that fails has emitted no event.
C21_SubscribersSeeWholeMutation ==
    [][ /\ SubscriberEntered'
        /\ SubscriberCallsAnswerAnew'
        /\ (last'.op \in {"addRole", "removeRole"} /\ ~last'.ok) => emitting = <<>>
      ]_vars

\* C22: once addRole or removeRole has applied its mutation and its
\* subscribers have returned, the call completes successfully whether or not
\* the audit record could be written: the mutation stays applied, the caches
\* hold nothing of the old configuration, and no error reaches the caller.
C22_AuditFailureIsHarmless ==
    [][ ( /\ emitting # <<>>
          /\ emitting' = <<>>
          /\ last'.err.kind # "SubscriberError" )
        => ( /\ last'.ok
             /\ roles' = roles
             /\ (last'.op = "addRole") => last'.role \in ListRoles(roles')
             /\ (last'.op = "removeRole") => last'.role \notin ListRoles(roles') ) ]_vars

-----------------------------------------------------------------------------
(* Arrays shared with callers: C23 *)

\* C23: after a caller mutates an array it earlier passed to addRole or
\* received from getPermissionsForRole, every getPermissionsForRole and
\* hasPermission call returns what it would have returned had the caller not
\* mutated the array.
C23_CallerArraysAreCopies ==
    [][ (last'.op = "callerPush") =>
          /\ \A role \in DecisionRoleNames :
                 LET after  == GetRolePermissions(roles', cache', role, {})
                     before == GetRolePermissions(roles, cache, role, {})
                 IN  after.ok = before.ok /\ after.value = before.value
          /\ \A id \in UserIds, role \in DecisionRoleNames, rq \in Requests :
                 LET after  == HasPermission(roles', users', cache', permissionCache',
                                   memoWildcardMatch', [id |-> id, role |-> role],
                                   rq[1], rq[2])
                     before == HasPermission(roles, users, cache, permissionCache,
                                   memoWildcardMatch, [id |-> id, role |-> role],
                                   rq[1], rq[2])
                 IN  after.ok = before.ok /\ after.result = before.result ]_vars

-----------------------------------------------------------------------------
(* Shape of a configuration document: C24 *)

\* A role as the shape rules want it: an object whose permissions is an array
\* and whose inherits, where present, is an array.
RoleWellShaped(role) ==
    /\ role.type = "object"
    /\ JGet(role, "permissions").type = "array"
    /\ JGet(role, "inherits").type \in {"undefined", "array"}

\* A document as the shape rules want it: roles is present and is a mapping of
\* role names to such roles.
DocumentWellShaped(document) ==
    /\ document.type = "object"
    /\ JGet(document, "roles").type = "object"
    /\ \A i \in 1..Len(JGet(document, "roles").members) :
           RoleWellShaped(JGet(document, "roles").members[i][2])

\* C24: validation rejects with ConfigurationInvalid every document in which
\* roles is missing or is not a mapping of role names to roles, or some role's
\* permissions is not an array, or some role's inherits is present and is not
\* an array, and accepts every document that satisfies these shape rules.
C24_ShapeRules ==
    (last.op = "validateConfig") =>
        IF DocumentWellShaped(last.document)
        THEN last.ok
        ELSE ~last.ok /\ last.err.kind = "ConfigurationInvalid"

-----------------------------------------------------------------------------
(* Inheritance errors surface at resolution: C25 *)

\* C25: addRole succeeds for every unused name whatever its inherits list
\* holds (absent names, its own name, names that close a cycle), and the
\* RoleNotFound or CircularInheritance such a list leads to is raised only
\* when the role is resolved afterwards.
C25_InheritsUnchecked ==
    [][ ( /\ last'.op = "addRole"
          /\ last'.role \notin ListRoles(roles) )
        => ( /\ last'.ok
             /\ last'.role \in ListRoles(roles')
             /\ LET r == GetRolePermissions(roles', cache', last'.role, {})
                IN  IF WellFounded(roles', last'.role)
                    THEN r.ok
                    ELSE ~r.ok /\ r.err.kind \in {"RoleNotFound", "CircularInheritance"} )
      ]_vars

-----------------------------------------------------------------------------
(* What a failed call leaves in the caches: C26 *)

\* C26: a getPermissionsForRole(X) that raises RoleNotFound or
\* CircularInheritance leaves no role-cache entry for X nor for any role whose
\* resolution was under way when it raised; every entry it did add is the
\* complete resolved set of its role, and the entries that were there stay as
\* they were.  A hasPermission call that raises writes no decision-cache entry.
C26_NoPartialResult ==
    [][ /\ ( /\ last'.op = "getPermissionsForRole"
             /\ ~last'.ok )
           => ( /\ last'.err.kind \in {"RoleNotFound", "CircularInheritance"}
                /\ last'.role \notin DOMAIN cache'
                /\ \A n \in Below(roles, last'.role) :
                       ~WellFounded(roles, n) => n \notin DOMAIN cache'
                /\ \A n \in DOMAIN cache' \ DOMAIN cache :
                       /\ WellFounded(roles, n)
                       /\ Range(cache'[n]) = UnionBelow(roles, n)
                /\ \A n \in DOMAIN cache : cache'[n] = cache[n] )
        /\ ( /\ last'.op = "hasPermission"
             /\ ~last'.ok )
           => permissionCache' = permissionCache ]_vars

\* getPermissionsForRole("A") raised after B had been resolved and cached, and
\* neither A nor the role it failed at has an entry.
C26_Witness ==
    /\ last.op = "getPermissionsForRole" /\ last.role = "A" /\ ~last.ok
    /\ roles["A"].inherits = <<"B", "C">>
    /\ "B" \in DOMAIN cache
    /\ "A" \notin DOMAIN cache /\ "C" \notin DOMAIN cache

-----------------------------------------------------------------------------
(* Memoisation of dependencies: C27 *)

\* C27: after a successful getPermissionsForRole(X) the role cache holds an
\* entry for every role reachable from X through inherits, X included, each
\* the full resolved set of its own role; and an entry stays as it is until
\* the next invalidation, which empties the role cache.
C27_DependenciesMemoised ==
    [][ /\ ( /\ last'.op = "getPermissionsForRole"
             /\ last'.ok )
           => \A n \in Below(roles', last'.role) :
                  /\ n \in DOMAIN cache'
                  /\ Range(cache'[n]) = UnionBelow(roles', n)
        /\ \/ DOMAIN cache' = {}
           \/ \A n \in DOMAIN cache : n \in DOMAIN cache' /\ cache'[n] = cache[n]
      ]_vars

\* getPermissionsForRole("A") returned on A -> [B, C], B -> C, and B and C
\* have entries, each different from A's.
C27_Witness ==
    /\ last.op = "getPermissionsForRole" /\ last.role = "A" /\ last.ok
    /\ Reachable(roles, "A") = {"B", "C"}
    /\ {"A", "B", "C"} \subseteq DOMAIN cache
    /\ cache["B"] # cache["A"] /\ cache["C"] # cache["B"]

-----------------------------------------------------------------------------
(* Decision and query calls leave the configuration alone: C28 *)

QueryOps ==
    {"hasPermission", "checkMultiplePermissions", "checkAnyPermission",
     "getPermissionsForRole", "listRoles", "listUsers", "hasRole", "clearCache"}

\* C28: hasPermission, checkMultiplePermissions, checkAnyPermission,
\* getPermissionsForRole, listRoles, listUsers, hasRole and clearCache never
\* change a role's permissions or inherits, the set of roles or a user
\* override, whether they return or raise.
C28_QueriesArePure ==
    [][ (last'.op \in QueryOps) => (roles' = roles /\ users' = users) ]_vars

\* A getPermissionsForRole that raised after it had added a cache entry, on a
\* configuration with roles of its own.
C28_Witness ==
    /\ last.op = "getPermissionsForRole" /\ ~last.ok
    /\ DOMAIN cache # {}
    /\ DOMAIN roles # {}

-----------------------------------------------------------------------------
(* Invalidation reaches the roles that inherit: C29 *)

\* C29: after a successful addPermissionToRole(R, p), the next
\* getPermissionsForRole(X) that returns includes p for R and for every role X
\* that inherits R directly or through other roles, and the next hasPermission
\* for p of a user with such a role and no deny override on p is true,
\* whatever had been cached before.
C29_InvalidationReachesDependents ==
    ( /\ last.op = "addPermissionToRole"
      /\ last.ok )
    => \A X \in RoleNames :
           (last.role \in Below(roles, X)) =>
               /\ LET r == GetRolePermissions(roles, cache, X, {})
                  IN  r.ok => last.permission \in Range(r.value)
               /\ \A id \in UserIds :
                      LET d == HasPermission(roles, users, cache, permissionCache,
                                   memoWildcardMatch, [id |-> id, role |-> X],
                                   last.permission, Undefined)
                      IN  (d.ok /\ ~AnyMatches(UserOverrides(users, id).denies,
                                               last.permission))
                          => d.result

\* addPermissionToRole("C", p) returned on the chain A -> B -> C, where neither
\* A nor B lists p itself.
C29_Witness ==
    /\ last.op = "addPermissionToRole" /\ last.ok /\ last.role = "C"
    /\ "C" \in Reachable(roles, "A") /\ "C" \notin Parents(roles, "A")
    /\ last.permission \notin Range(roles["A"].permissions)
    /\ last.permission \notin Range(roles["B"].permissions)
    /\ GetRolePermissions(roles, cache, "A", {}).ok

-----------------------------------------------------------------------------
(* Order of a resolved list: C30 *)

\* The elements of list from index i on, each kept where it occurs first.
RECURSIVE KeepFirst(_, _)
KeepFirst(list, i) ==
    IF i > Len(list) THEN <<>>
    ELSE (IF \E j \in 1..(i - 1) : list[j] = list[i] THEN <<>> ELSE <<list[i]>>)
         \o KeepFirst(list, i + 1)

\* The own permissions of a role of a well-founded graph, followed by the
\* lists of the roles it inherits, in the order of inherits, depth first.
RECURSIVE DepthFirst(_, _)
RECURSIVE InheritedInOrder(_, _)
InheritedInOrder(rolesCfg, inherits) ==
    IF inherits = <<>> THEN <<>>
    ELSE DepthFirst(rolesCfg, Head(inherits)) \o InheritedInOrder(rolesCfg, Tail(inherits))

DepthFirst(rolesCfg, n) ==
    rolesCfg[n].permissions \o InheritedInOrder(rolesCfg, rolesCfg[n].inherits)

\* C30: getPermissionsForRole returns a list without duplicates in a fixed
\* order, whatever the cache holds: the role's own permissions in the order of
\* its list, then those of the roles of inherits, in list order and depth
\* first, each permission kept where it occurs first.  For viewer =
\* [read:articles] and editor = [write:articles] inheriting viewer, the result
\* for editor is [write:articles, read:articles].
C30_ResolvedOrder ==
    /\ ( /\ last.op = "getPermissionsForRole"
         /\ last.ok
         /\ last.role \in ListRoles(roles) )
       => /\ WellFounded(roles, last.role)
          /\ last.value = KeepFirst(DepthFirst(roles, last.role), 1)
          /\ \A i, j \in 1..Len(last.value) : last.value[i] = last.value[j] => i = j
    /\ GetRolePermissions(ConfigEditorViewer.roles, EmptyMap, "editor", {}).value
           = <<WriteArticles, ReadArticles>>

\* getPermissionsForRole("A") on A -> [B, C], B -> C returned three or more
\* permissions, one of which A reaches along two paths, with B's list served
\* from the cache or resolved anew.
C30_Witness ==
    /\ last.op = "getPermissionsForRole" /\ last.role = "A" /\ last.ok
    /\ "A" \in DOMAIN roles /\ roles["A"].inherits = <<"B", "C">>
    /\ "B" \in DOMAIN roles /\ roles["B"].inherits = <<"C">>
    /\ Len(last.value) >= 3
    /\ Len(DepthFirst(roles, "A")) > Len(last.value)

-----------------------------------------------------------------------------
(* Referential integrity of inherits: C31 *)

\* Every name in every inherits list names a role of the configuration.
NoDanglingInherits(rolesCfg) ==
    \A n \in DOMAIN rolesCfg : Range(rolesCfg[n].inherits) \subseteq DOMAIN rolesCfg

\* C31: removeRole never introduces a dangling inheritance reference: when
\* every name in every inherits list names an existing role before a
\* removeRole call, the same holds after it, whether it returned or raised.
C31_RemoveKeepsReferences ==
    [][ ( /\ last'.op = "removeRole"
          /\ NoDanglingInherits(roles) )
        => NoDanglingInherits(roles') ]_vars

\* removeRole("A") returned and took A away, and B still inherits C.
C31_Witness ==
    /\ last.op = "removeRole" /\ last.ok /\ last.role = "A"
    /\ "A" \notin DOMAIN roles
    /\ "B" \in DOMAIN roles /\ roles["B"].inherits = <<"C">>
    /\ NoDanglingInherits(roles)

-----------------------------------------------------------------------------
(* A shared ancestor is no cycle: C33 *)

\* C33: on an acyclic role graph with a shared ancestor (A inherits B and C,
\* B and C both inherit D) getPermissionsForRole never raises
\* CircularInheritance: it returns, for A, the union of the permissions of the
\* four roles, although D is reached twice under one visited set.
C33_SharedAncestor ==
    ( /\ last.op = "getPermissionsForRole"
      /\ WellFounded(roles, last.role) )
    => ( /\ last.ok
         /\ Range(last.value) = UnionBelow(roles, last.role)
         /\ (last.role = "A") =>
                Range(last.value) = UNION {Range(roles[n].permissions) : n \in DiamondNames} )

\* getPermissionsForRole("A") returned on the diamond: D is below both B and
\* C, and what only D grants is in the result.
C33_Witness ==
    /\ last.op = "getPermissionsForRole" /\ last.role = "A" /\ last.ok
    /\ roles["A"].inherits = <<"B", "C">>
    /\ "D" \in Parents(roles, "B") /\ "D" \in Parents(roles, "C")
    /\ <<"d">> \in Range(last.value)
    /\ <<"d">> \notin Range(roles["A"].permissions) \cup Range(roles["B"].permissions)
                      \cup Range(roles["C"].permissions)

-----------------------------------------------------------------------------
(* The role of the user passed to the call: C34 *)

\* C34: of two hasPermission calls in a row with the same user id, permission
\* and context but different roles, the second returns the decision, or
\* raises the error, that its own role yields under the configuration.
C34_DecisionFollowsRole ==
    [][ ( /\ last.op = "hasPermission"
          /\ last'.op = "hasPermission"
          /\ last'.id = last.id
          /\ last'.permission = last.permission
          /\ last'.context = last.context
          /\ last'.role # last.role
          /\ UNCHANGED <<roles, users>> )
        => ( /\ last'.ok = FreshDecision(last').ok
             /\ last'.err = FreshDecision(last').err
             /\ last'.result = FreshDecision(last').result ) ]_vars

-----------------------------------------------------------------------------
(* Context as concatenation: C35 *)

\* What hasPermission(user, permission, context) returns or raises in the
\* current state.
OutcomeNow(id, role, permission, context) ==
    LET r == HasPermission(roles, users, cache, permissionCache, memoWildcardMatch,
                           [id |-> id, role |-> role], permission, context)
    IN  [ok |-> r.ok, err |-> r.err, result |-> r.result]

\* C35: in every reachable state, for every user, permission p and non-empty
\* context c, hasPermission(user, p, c) gives the outcome of
\* hasPermission(user, p + ":" + c) without context, and hasPermission(user,
\* p, "") gives the outcome of hasPermission(user, p).
C35_ContextIsConcatenation ==
    \A id \in UserIds, role \in DecisionRoleNames, rq \in Requests :
        IF Truthy(rq[2])
        THEN OutcomeNow(id, role, rq[1], rq[2])
                 = OutcomeNow(id, role, rq[1] \o <<":">> \o rq[2], Undefined)
        ELSE OutcomeNow(id, role, rq[1], rq[2]) = OutcomeNow(id, role, rq[1], Undefined)

-----------------------------------------------------------------------------
(* Role existence across the API: C36 *)

\* Names given to the API: the role names of the configurations and a name
\* every object inherits from Object.prototype.
ApiNames == RoleNames \cup {"constructor"}

\* C36: in every reachable state and for every name n, hasRole(n) is true
\* exactly when n is in listRoles(), addRole(n, ...) is rejected as already
\* existing exactly when n is in listRoles(), and getPermissionsForRole(n)
\* raises RoleNotFound for n exactly when n is not in listRoles().
C36_ExistenceIsConsistent ==
    \A n \in ApiNames :
        /\ HasRole(roles, n) <=> n \in ListRoles(roles)
        /\ \A ps \in NewRolePermissions :
               (AddRole(roles, n, ps, <<>>).err = Error("RoleAlreadyExists", n))
                   <=> n \in ListRoles(roles)
        /\ (GetRolePermissions(roles, cache, n, {}).err = Error("RoleNotFound", n))
               <=> n \notin ListRoles(roles)

-----------------------------------------------------------------------------
(* The pattern memo: C38 *)

\* The wildcard patterns of the configurations, and the full permissions of
\* the requests.
WildcardPatterns == { <<"r", ":", "*">>, <<"*">>, <<"r", ":", "a", ":", "*">> }

FullRequests == {FullPermission(rq[1], rq[2]) : rq \in Requests}

\* C38: in every reachable state each entry of the pattern memo, keyed by
\* pattern P, is the matcher compiled from P itself, so that the entries that
\* survive clearCache() or a file reload change neither the result of
\* matchesWildcard nor any decision.
C38_MemoIsOfItsPattern ==
    /\ \A P \in DOMAIN memoWildcardMatch : memoWildcardMatch[P] = CompilePattern(P)
    /\ \A P \in WildcardPatterns \cup DOMAIN memoWildcardMatch, requested \in FullRequests :
           MatchesWildcard(P, requested, memoWildcardMatch).result
               = MatchesWildcard(P, requested, EmptyMap).result
    /\ \A id \in UserIds, role \in DecisionRoleNames, rq \in Requests :
           LET kept  == HasPermission(roles, users, cache, permissionCache,
                            memoWildcardMatch, [id |-> id, role |-> role], rq[1], rq[2])
               fresh == HasPermission(roles, users, cache, permissionCache,
                            EmptyMap, [id |-> id, role |-> role], rq[1], rq[2])
           IN  kept.ok = fresh.ok /\ kept.err = fresh.err /\ kept.result = fresh.result

\* A file reload went through and the memo still holds a pattern that no role
\* and no user override of the new configuration has.
C38_Witness ==
    /\ last.op = "fileReload" /\ last.ok
    /\ \E P \in DOMAIN memoWildcardMatch :
           /\ \A n \in DOMAIN roles : P \notin Range(roles[n].permissions)
           /\ \A id \in DOMAIN users :
                  P \notin Range(users[id].permissions) \cup Range(users[id].denies)

-----------------------------------------------------------------------------
(* The frame of addPermissionToRole: C37 *)

\* C37: addPermissionToRole(R, p) changes only R's own permission list: for
\* roles created by any sequence of addRole calls, the own permissions and
\* inherits of every role other than R, R's inherits, the set of role names
\* and all user overrides are the same after the call as before it.
C37_OnlyOwnPermissions ==
    [][ last'.op = "addPermissionToRole"
        => ( /\ DOMAIN roles' = DOMAIN roles
             /\ users' = users
             /\ \A n \in DOMAIN roles :
                    /\ n # last'.role => roles'[n] = roles[n]
                    /\ roles'[n].inherits = roles[n].inherits ) ]_vars

-----------------------------------------------------------------------------
(* Termination of the resolver: C32 *)

\* The outcome of the outermost getRolePermissions call, reached one call and
\* one loop turn at a time, is the one GetRolePermissions computes from the
\* cache the public call found, and so is this.cache.
StepwiseAgrees ==
    (resolving # <<>> /\ resolving[1].returned # <<>>)
    => LET run == resolving[1]
           got == run.returned[1]
           whole == GetRolePermissions(roles, run.cacheAtCall, run.call.role, {})
       IN  /\ got.ok = whole.ok
           /\ got.err = whole.err
           /\ got.value = whole.value
           /\ cache = whole.cache

\* C32: getPermissionsForRole and hasPermission terminate: a call that began
\* returns a value or raises an error after finitely many steps, whatever the
\* role graph is, with cycles, self-inheriting roles and inherits entries that
\* name absent roles.
C32_CallsTerminate == (resolving # <<>>) ~> (resolving = <<>>)

\* A call on a role of a cycle, two calls deep, is about to call a role that
\* is already in visited.
C32_Witness ==
    /\ resolving # <<>>
    /\ Len(resolving[1].stack) >= 2
    /\ resolving[1].calling # <<>>
    /\ resolving[1].calling[1] \in resolving[1].visited
    /\ resolving[1].calling[1] \notin DOMAIN cache

=============================================================================
